---- MODULE Spec2Model ----
(***************************************************************************)
(* Dual-rootfs (A/B) upgrade coordinator of snappy's partition package:    *)
(* the mount registries, the signal-driven cleanup, the GRUB and U-Boot    *)
(* bootloader variants and the UpdateBootloader / RunWithOther /           *)
(* MarkBootSuccessful operations, modelled step by step from               *)
(* src/partition/bootloader.go and the grub variant (src/unnamed/part_000).*)
(*                                                                         *)
(* External commands (mount, umount, fsck, update-grub, grub-editenv) and  *)
(* file system calls are the environment: each may succeed or fail.        *)
(* A Go runtime panic (index out of range) ends the process: proc="panic". *)
(***************************************************************************)
EXTENDS Integers, Sequences, FiniteSets, TLC

VARIABLES
    partitions,   \* Partition.partitions: the recognised block devices
    installed,    \* which bootloader signature files exist on disk
    envFile,      \* /boot/uboot/snappy-system.txt: NoFile or a sequence of lines
    tmpFile,      \* /boot/uboot/snappy-system.txt.NEW
    grubenv,      \* /boot/grub/grubenv as grub-editenv sees it
    stampFile,    \* /boot/uboot/snappy-stamp.txt exists
    mounts,       \* var mounts []string
    bindMounts,   \* var bindMounts []string
    mtab,         \* the kernel's mount table (the mounts below the mount target)
    pc,           \* position of the main thread
    op,           \* operation the main thread is executing
    bl,           \* bootloader variant selected by GetBootloader in this operation
    idx,          \* loop index of the step being executed
    ferr,         \* error returned by the callback f of RunWithOther
    nops,         \* number of operations started
    ret,          \* the last operation and what it returned
    proc,         \* "new" (New() has not returned), "running", "exit1"
                  \* (os.Exit(1)), "panic" (runtime panic) or "off"
    sig,          \* signal goroutine: "wait", "caught", "done"
    hdl,          \* what the signal handler did (history)
    tog,          \* what the ToggleRootFS of this operation wrote (history)
    toggled,      \* a ToggleRootFS has completed on this device (history)
    unsynced,     \* the data of snappy-system.txt are in the page cache only
    rt,           \* a setBootVar / GetBootVar round trip on the grub environment
    probe,        \* what lsblk lists, and what New() and newBootloader made of it
    lockfile,     \* /writable/cache/.lockfile: 0 when absent, else the process
                  \* that created the file now at that path
    lk,           \* per process of the tool: its command, uid, position, the
                  \* package variable "lock" and its signal goroutine
    xc,           \* a call of exitCode: how the child ended, the error of
                  \* cmd.Run() passed in, and what was returned
    assets        \* a call of HandleAssets: hardware.yaml, the cache directory,
                  \* the other boot slot, and what was returned

vars == <<partitions, installed, envFile, tmpFile, grubenv, stampFile, mounts,
          bindMounts, mtab, pc, op, bl, idx, ferr, nops, ret, proc, sig, hdl, tog,
          toggled, unsynced, rt, probe, lockfile, lk, xc, assets>>

\* ------------------------------------------------------------------ bounds

\* operations one process runs before it idles
MaxOps == 2

\* length of the values written in a setBootVar / GetBootVar round trip
MaxLen == 2

\* number of recognised partitions in an lsblk listing
MaxParts == 2

\* number of processes of the tool started on the host
NumProcs == 2

\* largest exit status of a child process
MaxExit == 100

\* ------------------------------------------------------- program constants

bootloaderRootfsVar == "snappy_ab"
bootloaderBootmodeVar == "snappy_mode"
bootloaderBootmodeTry == "try"
bootloaderBootmodeSuccess == "default"

ROOTFS_A_LABEL == "system-a"
ROOTFS_B_LABEL == "system-b"
BOOT_PARTITION_LABEL == "system-boot"
WRITABLE_PARTITION_LABEL == "writable"

bootloaderNameUboot == "u-boot"
bootloaderNameGrub == "grub"

\* path.Join(DEFAULT_CACHE_DIR, MOUNT_TARGET)
MountTarget == "/writable/cache/system"

RO == "RO"
RW == "RW"

nil == "nil"
\* a file: whether it exists, and its lines
File(lines) == [exists |-> TRUE, lines |-> lines]

NoFile == [exists |-> FALSE, lines |-> <<>>]
Unset == "Unset"

rootPartitionLabels == <<ROOTFS_A_LABEL, ROOTFS_B_LABEL>>

\* a faulty requiredChrootMounts: /proc before /dev
requiredChrootMountsProcFirst == <<"/proc", "/dev", "/sys">>

requiredChrootMounts == <<"/dev", "/proc", "/sys">>

\* path.Join(p.MountTarget(), fs) for the paths that are bind-mounted
Join(fs) ==
    CASE fs = "/dev" -> "/writable/cache/system/dev"
      [] fs = "/proc" -> "/writable/cache/system/proc"
      [] fs = "/sys" -> "/writable/cache/system/sys"
      [] fs = "/boot/uboot" -> "/writable/cache/system/boot/uboot"
      [] fs = "/boot/grub" -> "/writable/cache/system/boot/grub"

\* ------------------------------------------------------------ small helpers

Range(s) == {s[i] : i \in 1..Len(s)}

RemoveAt(s, pos) == SubSeq(s, 1, pos - 1) \o SubSeq(s, pos + 1, Len(s))

\* position of the string in the slice (1-based), 0 when absent (Go: -1)
stringInSlice(slice, value) ==
    IF \E i \in 1..Len(slice) : slice[i] = value
    THEN CHOOSE i \in 1..Len(slice) :
            slice[i] = value /\ \A j \in 1..(i - 1) : slice[j] # value
    ELSE 0

\* remove the first occurrence of needle
stringSliceRemove(slice, needle) ==
    LET pos == stringInSlice(slice, needle)
    IN  IF pos >= 1 THEN RemoveAt(slice, pos) ELSE slice

\* ----------------------------------------------------------- partition model

Dev(label, mp) == [name |-> label, mountpoint |-> mp]

\* lsblk listings a device can present (after the label filter)
Listings ==
    { << Dev(ROOTFS_A_LABEL, "/"), Dev(ROOTFS_B_LABEL, ""),
         Dev(WRITABLE_PARTITION_LABEL, "/writable") >>,
      << Dev(ROOTFS_A_LABEL, ""), Dev(ROOTFS_B_LABEL, "/"),
         Dev(BOOT_PARTITION_LABEL, "/boot/uboot"),
         Dev(WRITABLE_PARTITION_LABEL, "/writable") >>,
      << Dev(ROOTFS_A_LABEL, "/"), Dev(ROOTFS_B_LABEL, ""),
         Dev(BOOT_PARTITION_LABEL, ""),
         Dev(WRITABLE_PARTITION_LABEL, "/writable") >>,
      << Dev(ROOTFS_A_LABEL, "/"),
         Dev(WRITABLE_PARTITION_LABEL, "/writable") >> }

RECURSIVE FilterRoots(_)
FilterRoots(parts) ==
    IF parts = <<>> THEN <<>>
    ELSE IF stringInSlice(rootPartitionLabels, Head(parts).name) >= 1
         THEN <<Head(parts)>> \o FilterRoots(Tail(parts))
         ELSE FilterRoots(Tail(parts))

rootPartitions == FilterRoots(partitions)

\* a faulty dualRootPartitions: one root partition is taken for two
dualRootPartitionsAny == Len(rootPartitions) >= 1

dualRootPartitions == Len(rootPartitions) = 2

singleRootPartition == Len(rootPartitions) = 1

\* first root partition mounted at "/"
rootPartition ==
    LET r == rootPartitions
    IN  r[CHOOSE i \in 1..Len(r) :
            r[i].mountpoint = "/" /\ \A j \in 1..(i - 1) : r[j].mountpoint # "/"]

hasRootPartition == \E i \in 1..Len(rootPartitions) : rootPartitions[i].mountpoint = "/"

hasOtherRootPartition == \E i \in 1..Len(rootPartitions) : rootPartitions[i].mountpoint # "/"

\* first root partition not mounted at "/"
otherRootPartition ==
    LET r == rootPartitions
    IN  r[CHOOSE i \in 1..Len(r) :
            r[i].mountpoint # "/" /\ \A j \in 1..(i - 1) : r[j].mountpoint = "/"]

hasBootPartition == \E i \in 1..Len(partitions) : partitions[i].name = BOOT_PARTITION_LABEL

bootPartition ==
    partitions[CHOOSE i \in 1..Len(partitions) : partitions[i].name = BOOT_PARTITION_LABEL]

\* last character of a root label
LastChar(label) ==
    CASE label = ROOTFS_A_LABEL -> "a"
      [] label = ROOTFS_B_LABEL -> "b"

\* newBootloader: b.currentRootfs and b.otherRootfs
currentRootfs == LastChar(rootPartition.name)

otherRootfs == LastChar(otherRootPartition.name)

\* ------------------------------------------------------- the mount table

\* outcome of an external command (runCommand): nil or an error
CmdErrs == {nil, "failed"}

Mnt(target, opt) == [target |-> target, opt |-> opt]

Mounted(tab, target) == \E i \in 1..Len(tab) : tab[i].target = target

LastAt(tab, target) ==
    CHOOSE i \in 1..Len(tab) :
        tab[i].target = target /\ \A j \in (i + 1)..Len(tab) : tab[j].target # target

\* umount(8) refuses a target that is not mounted, and the mount target while
\* something is still mounted below it (EBUSY)
CanUmount(tab, target) ==
    /\ Mounted(tab, target)
    /\ target = MountTarget => \A i \in 1..Len(tab) : tab[i].target = MountTarget

TabUmount(tab, target) == RemoveAt(tab, LastAt(tab, target))

TabRemount(tab, target, opt) ==
    [tab EXCEPT ![LastAt(tab, target)] = Mnt(target, opt)]

\* how the mount target is mounted: "none", "ro" or "rw"
OtherMode ==
    IF Mounted(mtab, MountTarget) THEN mtab[LastAt(mtab, MountTarget)].opt ELSE "none"

\* ------------------------------------------------------ the mount registries

\* a faulty mount(): the target is registered whatever the command returned
mountAlways(reg, target, err) == Append(reg, target)

\* mount(): "if err == nil { mounts = append(mounts, target) }"
mount(reg, target, err) == IF err = nil THEN Append(reg, target) ELSE reg

\* bindmount(): "if err == nil { bindMounts = append(bindMounts, target) }"
bindmount(reg, target, err) == IF err = nil THEN Append(reg, target) ELSE reg

\* unmount(): "if err == nil { mounts = stringSliceRemove(mounts, target) }"
unmount(reg, target, err) == IF err = nil THEN stringSliceRemove(reg, target) ELSE reg

\* a faulty loop bound: one iteration too many
undoMountsRangeOver(n) == n + 1

\* "for i := range mounts": the number of iterations
undoMountsRange(n) == n

\* "mounts[len(mounts)-i]": the Go (0-based) index used in iteration i
undoMountsIndex(n, i) == n - i

\* what umount returns in iteration i when the environment fails iteration k
UmountErr(tab, target, i, k) ==
    IF i # k /\ CanUmount(tab, target) THEN nil ELSE "failed"

\* undoMounts(local): the loop from iteration i on.  local is the slice passed
\* in, m the global mounts slice that unmount() edits, tab the mount table, k
\* the iteration whose umount the environment fails, log the umounts issued.
RECURSIVE undoLoop(_, _, _, _, _, _)
undoLoop(local, i, m, tab, k, log) ==
    IF i >= undoMountsRange(Len(local))
    THEN [res |-> nil, mounts |-> m, mtab |-> tab, log |-> log]
    ELSE LET j == undoMountsIndex(Len(local), i)
         IN  IF j < 0 \/ j >= Len(local)
             THEN [res |-> "panic", mounts |-> m, mtab |-> tab, log |-> log]
             ELSE LET target == local[j + 1]
                      err == UmountErr(tab, target, i, k)
                  IN  IF err # nil
                      THEN [res |-> err, mounts |-> m, mtab |-> tab,
                            log |-> Append(log, target)]
                      ELSE undoLoop(local, i + 1, unmount(m, target, err),
                                    TabUmount(tab, target), k,
                                    Append(log, target))

undoMounts(local, m, tab, k) == undoLoop(local, 0, m, tab, k, <<>>)

\* ------------------------------------------------- bootloader variable stores

\* fmt.Sprintf("%s=%s", name, value): a line is its sequence of tokens
Line(name, value) == <<name, "=", value>>

\* a faulty prefix test: the name is not compared
HasNamePrefixLoose(line, name) == Len(line) >= 2 /\ line[2] = "="

\* strings.HasPrefix(line, fmt.Sprintf("%s=", name))
HasNamePrefix(line, name) == Len(line) >= 2 /\ line[1] = name /\ line[2] = "="

LineValue(line) == IF Len(line) >= 3 THEN line[3] ELSE ""

Change(name, value) == [Name |-> name, Value |-> value]

\* goconfigparser: cfg.Get("", name) on headerless key=value lines; a later
\* line of the same key overrides an earlier one
cfgGet(lines, name) ==
    LET hits == {i \in 1..Len(lines) : HasNamePrefix(lines[i], name)}
    IN  IF hits = {} THEN [value |-> "", err |-> "NoOptionError"]
        ELSE [value |-> LineValue(lines[CHOOSE i \in hits : \A h \in hits : h <= i]),
              err |-> nil]

\* uboot.GetBootVar: a file that cannot be read gives "", nil
ubootGetBootVar(name) ==
    IF envFile = NoFile THEN [value |-> "", err |-> nil] ELSE cfgGet(envFile.lines, name)

\* "grub-editenv <file> list": one name=value line per variable that is set
grubList ==
    (IF grubenv[bootloaderBootmodeVar] # Unset
     THEN <<Line(bootloaderBootmodeVar, grubenv[bootloaderBootmodeVar])>> ELSE <<>>)
    \o
    (IF grubenv[bootloaderRootfsVar] # Unset
     THEN <<Line(bootloaderRootfsVar, grubenv[bootloaderRootfsVar])>> ELSE <<>>)

\* grub.GetBootVar, when grub-editenv itself succeeds
grubGetBootVar(name) == cfgGet(grubList, name)

GetBootVar(b, name) ==
    IF b = bootloaderNameUboot THEN ubootGetBootVar(name) ELSE grubGetBootVar(name)

\* GetBootVar when the grub-editenv run it makes returned e (U-Boot runs no
\* command: its read cannot fail that way)
GetBootVarErr(b, name, e) ==
    IF b = bootloaderNameGrub /\ e # nil THEN [value |-> "", err |-> e]
    ELSE GetBootVar(b, name)

\* inner loop of modifyNameValueFile over changes[k..]: the rewritten line and
\* the changes that matched it
RECURSIVE applyChanges(_, _, _, _)
applyChanges(line, changes, k, updated) ==
    IF k > Len(changes) THEN [line |-> line, updated |-> updated]
    ELSE IF HasNamePrefix(line, changes[k].Name)
         THEN applyChanges(Line(changes[k].Name, changes[k].Value), changes, k + 1,
                           Append(updated, changes[k]))
         ELSE applyChanges(line, changes, k + 1, updated)

\* outer loop of modifyNameValueFile over lines[n..]
RECURSIVE rewriteLines(_, _, _, _, _)
rewriteLines(lines, n, changes, new, updated) ==
    IF n > Len(lines) THEN [lines |-> new, updated |-> updated]
    ELSE LET r == applyChanges(lines[n], changes, 1, updated)
         IN  rewriteLines(lines, n + 1, changes, Append(new, r.line), r.updated)

\* a faulty second loop: every change is appended, matched or not
appendMissingAlways(lines, changes, k, updated) ==
    lines \o [i \in 1..(Len(changes) - k + 1) |->
                 Line(changes[k + i - 1].Name, changes[k + i - 1].Value)]

\* second loop of modifyNameValueFile: append the changes that matched no line
RECURSIVE appendMissing(_, _, _, _)
appendMissing(lines, changes, k, updated) ==
    IF k > Len(changes) THEN lines
    ELSE IF \E u \in 1..Len(updated) : updated[u].Name = changes[k].Name
         THEN appendMissing(lines, changes, k + 1, updated)
         ELSE appendMissing(Append(lines, Line(changes[k].Name, changes[k].Value)),
                            changes, k + 1, updated)

\* modifyNameValueFile: the lines handed to atomicFileUpdate
modifyNameValueFile(lines, changes) ==
    LET r == rewriteLines(lines, 1, changes, <<>>, <<>>)
    IN  appendMissing(r.lines, changes, 1, r.updated)

\* a faulty uboot.ToggleRootFS: the rootfs written is the opposite of the one
\* stored, whatever is mounted at "/"
ubootToggleChangesStored ==
    << Change(bootloaderRootfsVar,
              IF ubootGetBootVar(bootloaderRootfsVar).value = "b" THEN "a" ELSE "b"),
       Change(bootloaderBootmodeVar, bootloaderBootmodeTry) >>

\* uboot.ToggleRootFS: the change set
ubootToggleChanges ==
    << Change(bootloaderRootfsVar, otherRootfs),
       Change(bootloaderBootmodeVar, bootloaderBootmodeTry) >>

\* a faulty uboot.MarkCurrentBootSuccessful: the rootfs choice is reverted too
ubootMarkChangesRevert ==
    << Change(bootloaderBootmodeVar, bootloaderBootmodeSuccess),
       Change(bootloaderRootfsVar, currentRootfs) >>

\* uboot.MarkCurrentBootSuccessful: the change set
ubootMarkChanges == << Change(bootloaderBootmodeVar, bootloaderBootmodeSuccess) >>

\* a faulty grub.ToggleRootFS: the bootmode write is made twice
grubToggleWritesRetry ==
    << Change(bootloaderBootmodeVar, bootloaderBootmodeTry),
       Change(bootloaderBootmodeVar, bootloaderBootmodeTry),
       Change(bootloaderRootfsVar, otherRootfs) >>

\* a faulty grub.ToggleRootFS: the two writes in the other order
grubToggleWritesSwapped ==
    << Change(bootloaderRootfsVar, otherRootfs),
       Change(bootloaderBootmodeVar, bootloaderBootmodeTry) >>

\* grub.ToggleRootFS: the two setBootVar calls, in order
grubToggleWrites ==
    << Change(bootloaderBootmodeVar, bootloaderBootmodeTry),
       Change(bootloaderRootfsVar, otherRootfs) >>

\* a faulty os.Rename: the file is replaced even when an error is reported
renameAlways(file, tmp, err) == tmp

\* atomicFileUpdate: the file after os.Rename(tmpFile, file) returned err
rename(file, tmp, err) == IF err = nil THEN tmp ELSE file

\* ------------------------------------- variable values, character by character

\* the characters the values of a round trip are made of (printable,
\* not a newline, not "=")
Chars == {"x", " "}

Values == UNION {[1..n -> Chars] : n \in 0..MaxLen}

BootVars == <<bootloaderBootmodeVar, bootloaderRootfsVar>>

\* a variable of the grub environment: whether it is set, and its characters
Var(value) == [set |-> TRUE, value |-> value]

NoVar == [set |-> FALSE, value |-> <<>>]

\* fmt.Sprintf("%s=%s", name, value): the name (one symbol), "=", the value's
\* characters
Sprintf(name, value) == <<name, "=">> \o value

\* "grub-editenv <file> set name=value": the argument is split at its first "="
editenvSet(store, arg) ==
    [store EXCEPT ![arg[1]] = Var(SubSeq(arg, 3, Len(arg)))]

\* "grub-editenv <file> list": one name=value line per variable that is set
RECURSIVE editenvList(_, _)
editenvList(store, i) ==
    IF i > Len(BootVars) THEN <<>>
    ELSE (IF store[BootVars[i]].set
          THEN <<Sprintf(BootVars[i], store[BootVars[i]].value)>> ELSE <<>>)
         \o editenvList(store, i + 1)

RECURSIVE TrimLeft(_)
TrimLeft(s) == IF s # <<>> /\ Head(s) = " " THEN TrimLeft(Tail(s)) ELSE s

\* goconfigparser on a "name=value" line: the value is what follows the
\* separator and the white space after it
optionValue(line) == TrimLeft(SubSeq(line, 3, Len(line)))

\* cfg.Get("", name) on the lines of the list output
cfgGetChars(lines, name) ==
    LET hits == {i \in 1..Len(lines) : HasNamePrefix(lines[i], name)}
    IN  IF hits = {} THEN [value |-> <<>>, err |-> "NoOptionError"]
        ELSE [value |-> optionValue(lines[CHOOSE i \in hits : \A h \in hits : h <= i]),
              err |-> nil]

\* ---------------------------------------------------------- variant selection

\* newUboot / newGrub return a bootloader only when the variant's signature
\* files exist and newBootloader found an "other" root partition
Installed(b) == b \in installed /\ hasOtherRootPartition

\* a faulty candidate list: GRUB first
bootloadersGrubFirst == <<bootloaderNameGrub, bootloaderNameUboot>>

\* GetBootloader: the candidates, in order
bootloaders == <<bootloaderNameUboot, bootloaderNameGrub>>

GetBootloader ==
    IF \E i \in 1..Len(bootloaders) : Installed(bootloaders[i])
    THEN [b |-> bootloaders[CHOOSE i \in 1..Len(bootloaders) :
                    Installed(bootloaders[i])
                    /\ \A j \in 1..(i - 1) : ~Installed(bootloaders[j])],
          err |-> nil]
    ELSE [b |-> "none", err |-> "BootloaderError"]

\* a faulty isNextBootOther: the bootmode is not looked at
isNextBootOtherAnyMode(b, e1, e2) ==
    LET fs == GetBootVarErr(b, bootloaderRootfsVar, e2)
    IN  fs.err = nil /\ fs.value = otherRootfs

\* isNextBootOther, and the body of Partition.NextBootIsOther after the
\* bootloader is selected: e1 and e2 are what the two reads' commands return
isNextBootOther(b, e1, e2) ==
    LET mode == GetBootVarErr(b, bootloaderBootmodeVar, e1)
        fs == GetBootVarErr(b, bootloaderRootfsVar, e2)
    IN  IF mode.err # nil THEN FALSE
        ELSE IF mode.value # bootloaderBootmodeTry THEN FALSE
        ELSE IF fs.err # nil THEN FALSE
        ELSE fs.value = otherRootfs

\* ------------------------------------------------------------ initial state

Procs == 1..NumProcs

\* a process of the tool that has not been started
NoProc == [cmd |-> "none", uid |-> 0, pc |-> "done", lock |-> "nil", sg |-> "exit",
           err |-> nil]

NoProcs == [p \in Procs |-> NoProc]

\* an error value: nil, an *exec.ExitError with its wait status, or another
\* error with its text
Err(kind, ws, msg) == [kind |-> kind, ws |-> ws, msg |-> msg]

nilErr == Err("nil", 0, "")

\* no exitCode call under way
NoExitCall == [st |-> "none", how |-> "none", n |-> 0, runErr |-> nilErr,
               e |-> 0, err |-> nilErr]

\* no probe under way: the partition model is taken as built
NoProbe == [st |-> "none", listing |-> <<>>, lsblk |-> nil, err |-> nil,
            cur |-> 0, oth |-> 0, curTag |-> "", othTag |-> ""]

\* contents of /boot/uboot/snappy-system.txt a device can start with
InitEnvFiles ==
    { File(<< Line(bootloaderBootmodeVar, bootloaderBootmodeSuccess),
              Line(bootloaderRootfsVar, "a") >>),
      File(<< Line(bootloaderRootfsVar, "b"),
              Line(bootloaderBootmodeVar, bootloaderBootmodeTry) >>),
      File(<< Line("snappy_trial", "x") >>),
      NoFile }

\* contents of the grub environment a device can start with
InitGrubEnvs ==
    { [v \in {bootloaderBootmodeVar, bootloaderRootfsVar} |-> Unset],
      [v \in {bootloaderBootmodeVar, bootloaderRootfsVar} |->
          IF v = bootloaderBootmodeVar THEN bootloaderBootmodeSuccess ELSE "a"] }

NoGrubEnv == [v \in {bootloaderBootmodeVar, bootloaderRootfsVar} |-> Unset]

NoToggle == [st |-> "none", mode |-> FALSE, ab |-> FALSE, preMode |-> "", preAb |-> ""]

NoHandler == [ran |-> FALSE, res |-> "none", log |-> <<>>, before |-> <<>>]

NoReturn == [op |-> "none", err |-> nil, at |-> "none"]

\* no round trip under way: the grub environment of the round trips is empty
NoRoundTrip ==
    [st |-> "none", store |-> [n \in Range(BootVars) |-> NoVar],
     k |-> "", v |-> <<>>, got |-> [value |-> <<>>, err |-> nil]]

\* no hardware.yaml, or one yaml.Unmarshal rejects
NoSpec == [state |-> "missing", Kernel |-> "", Initrd |-> "", DtbDir |-> "",
           PartitionLayout |-> "", Bootloader |-> ""]

\* no call of HandleAssets
NoAssets == [st |-> "none", b |-> "none", hw |-> NoSpec, cache |-> {}, slot |-> {},
             err |-> nil, before |-> {}]

\* The state after init() installed the signal handler and New() ran
\* getPartitionDetails: on a dual-root system ensureOtherMountedRO found the
\* mount target mounted already (nothing registered), or mounted it read-only
\* itself (registered), or failed to (New() drops the error).
Init ==
    /\ partitions \in Listings
    /\ installed \in SUBSET {bootloaderNameUboot, bootloaderNameGrub}
    /\ envFile \in (IF bootloaderNameUboot \in installed THEN InitEnvFiles ELSE {NoFile})
    /\ tmpFile = NoFile
    /\ grubenv \in (IF bootloaderNameGrub \in installed THEN InitGrubEnvs ELSE {NoGrubEnv})
    /\ stampFile \in (IF bootloaderNameUboot \in installed THEN BOOLEAN ELSE {FALSE})
    /\ \E premounted \in BOOLEAN, err \in CmdErrs :
          /\ ~dualRootPartitions => premounted = FALSE /\ err = "failed"
          /\ premounted => err = nil
          /\ mounts = IF premounted THEN <<>> ELSE mount(<<>>, MountTarget, err)
          /\ mtab = IF dualRootPartitions /\ err = nil
                    THEN <<Mnt(MountTarget, "ro")>> ELSE <<>>
    /\ bindMounts = <<>>
    /\ pc = "idle"
    /\ op = "none"
    /\ bl = "none"
    /\ idx = 0
    /\ ferr = nil
    /\ nops = 0
    /\ ret = NoReturn
    /\ proc = "running"
    /\ sig = "wait"
    /\ hdl = NoHandler
    /\ tog = NoToggle
    /\ toggled = FALSE
    /\ unsynced = FALSE
    /\ rt = NoRoundTrip
    /\ probe = NoProbe
    /\ lockfile = 0
    /\ lk = NoProcs
    /\ xc = NoExitCall
    /\ assets = NoAssets

\* ------------------------------------------------------------------ actions

env == <<partitions, installed, rt, probe, lockfile, lk, xc, assets>>
disk == <<envFile, tmpFile, grubenv, stampFile, unsynced>>
regs == <<mounts, bindMounts, mtab>>
sigv == <<proc, sig, hdl>>

Running == proc = "running"

\* the operation returns e to its caller
Return(e) ==
    /\ pc' = "idle"
    /\ op' = "none"
    /\ bl' = "none"
    /\ idx' = 0
    /\ ferr' = nil
    /\ ret' = [op |-> op, err |-> e, at |-> pc]
    /\ UNCHANGED nops

\* the operation goes on at position next
Goto(next, i) ==
    /\ pc' = next
    /\ idx' = i
    /\ UNCHANGED <<op, bl, ferr, nops, ret>>

\* Partition.UpdateBootloader: toggleBootloaderRootfs on a dual-root system,
\* nothing otherwise
UpdateBootloader ==
    /\ Running /\ pc = "idle" /\ nops < MaxOps
    /\ nops' = nops + 1
    /\ tog' = NoToggle
    /\ IF dualRootPartitions
       THEN /\ pc' = "rw_umount"
            /\ op' = "UpdateBootloader"
            /\ UNCHANGED ret
       ELSE /\ ret' = [op |-> "UpdateBootloader", err |-> nil, at |-> pc]
            /\ UNCHANGED <<pc, op>>
    /\ UNCHANGED <<env, disk, regs, sigv, bl, idx, ferr, toggled>>

\* Partition.RunWithOther up to the call of f or the start of remountOther(RW)
RunWithOther ==
    /\ Running /\ pc = "idle" /\ nops < MaxOps
    /\ \E option \in {RO, RW} :
          /\ op' = IF option = RW THEN "RunWithOtherRW" ELSE "RunWithOtherRO"
          /\ pc' = IF dualRootPartitions /\ option = RW THEN "rw_umount" ELSE "f"
    /\ nops' = nops + 1
    /\ tog' = NoToggle
    /\ UNCHANGED <<env, disk, regs, sigv, bl, idx, ferr, ret, toggled>>

\* Partition.MarkBootSuccessful up to the variant's MarkCurrentBootSuccessful
MarkBootSuccessful ==
    /\ Running /\ pc = "idle" /\ nops < MaxOps
    /\ nops' = nops + 1
    /\ tog' = NoToggle
    /\ LET g == GetBootloader
       IN  IF g.err # nil
           THEN /\ ret' = [op |-> "MarkBootSuccessful", err |-> g.err, at |-> pc]
                /\ UNCHANGED <<pc, op, bl>>
           ELSE /\ op' = "MarkBootSuccessful"
                /\ bl' = g.b
                /\ pc' = IF g.b = bootloaderNameUboot THEN "uboot_modify" ELSE "grub_mark"
                /\ UNCHANGED ret
    /\ UNCHANGED <<env, disk, regs, sigv, idx, ferr, toggled>>

\* a read that was not made
NotRead == [value |-> "", err |-> "not read"]

\* Partition.NextBootIsOther: the value returned, with what the selection and
\* the two reads gave
NextBootIsOther ==
    /\ Running /\ pc = "idle" /\ nops < MaxOps
    /\ nops' = nops + 1
    /\ tog' = NoToggle
    /\ \E e1 \in CmdErrs, e2 \in CmdErrs :
          LET g == GetBootloader
          IN  ret' = [op |-> "NextBootIsOther", err |-> nil, at |-> pc,
                      sel |-> g.err,
                      mode |-> IF g.err # nil THEN NotRead
                               ELSE GetBootVarErr(g.b, bootloaderBootmodeVar, e1),
                      fs |-> IF g.err # nil THEN NotRead
                             ELSE GetBootVarErr(g.b, bootloaderRootfsVar, e2),
                      val |-> IF g.err # nil THEN FALSE
                              ELSE isNextBootOther(g.b, e1, e2)]
    /\ UNCHANGED <<env, disk, regs, sigv, pc, op, bl, idx, ferr, toggled>>

\* a faulty remountOther(RW): the mount follows the unmount, without fsck
afterUnmountNoFsck == "rw_mount"

\* remountOther(RW): what follows unmountOtherRootfs when it returned nil
afterUnmount == "rw_fsck"

\* remountOther(RW), first step: unmountOtherRootfs
UnmountOtherRootfs ==
    /\ Running /\ pc = "rw_umount"
    /\ \E err \in CmdErrs :
          /\ err = nil => CanUmount(mtab, MountTarget)
          /\ mounts' = unmount(mounts, MountTarget, err)
          /\ mtab' = IF err = nil THEN TabUmount(mtab, MountTarget) ELSE mtab
          /\ IF err = nil THEN Goto(afterUnmount, 0) ELSE Return(err)
    /\ UNCHANGED <<env, disk, bindMounts, sigv, tog, toggled>>

\* remountOther(RW), second step: fsck(other.device)
Fsck ==
    /\ Running /\ pc = "rw_fsck"
    /\ \E err \in CmdErrs :
          IF err = nil THEN Goto("rw_mount", 0) ELSE Return(err)
    /\ UNCHANGED <<env, disk, regs, sigv, tog, toggled>>

\* remountOther(RW), third step: mount(other.device, p.MountTarget(), "")
MountOtherRW ==
    /\ Running /\ pc = "rw_mount"
    /\ \E err \in CmdErrs :
          /\ mounts' = mount(mounts, MountTarget, err)
          /\ mtab' = IF err = nil THEN Append(mtab, Mnt(MountTarget, "rw")) ELSE mtab
          /\ IF err # nil THEN Return(err)
             ELSE IF op = "UpdateBootloader" THEN Goto("bind", 1) ELSE Goto("f", 0)
    /\ UNCHANGED <<env, disk, bindMounts, sigv, tog, toggled>>

\* bindmountRequiredFilesystems: the sources to bind, in order
BindList ==
    requiredChrootMounts \o
    (IF hasBootPartition /\ bootPartition.mountpoint # ""
     THEN <<bootPartition.mountpoint>> ELSE <<>>)

\* bindmountRequiredFilesystems: one bindmount(fs, target)
BindmountRequiredFilesystems ==
    /\ Running /\ pc = "bind"
    /\ LET target == Join(BindList[idx])
       IN  \E err \in CmdErrs :
              /\ mounts' = mount(mounts, target, err)
              /\ bindMounts' = bindmount(bindMounts, target, err)
              /\ mtab' = IF err = nil THEN Append(mtab, Mnt(target, "bind")) ELSE mtab
              /\ IF err # nil THEN Return(err)
                 ELSE IF idx = Len(BindList) THEN Goto("bootloader", 0)
                 ELSE Goto("bind", idx + 1)
    /\ UNCHANGED <<env, disk, sigv, tog, toggled>>

\* handleBootloader: GetBootloader, then the variant's ToggleRootFS begins
HandleBootloader ==
    /\ Running /\ pc = "bootloader"
    /\ LET g == GetBootloader
       IN  IF g.err # nil
           THEN Return(g.err) /\ UNCHANGED tog
           ELSE /\ bl' = g.b
                /\ pc' = IF g.b = bootloaderNameUboot THEN "uboot_modify" ELSE "grub_update"
                /\ tog' = [st |-> "run", mode |-> FALSE, ab |-> FALSE,
                           preMode |-> GetBootVar(g.b, bootloaderBootmodeVar).value,
                           preAb |-> GetBootVar(g.b, bootloaderRootfsVar).value]
                /\ UNCHANGED <<op, idx, ferr, nops, ret>>
    /\ UNCHANGED <<env, disk, regs, sigv, toggled>>

\* grub.ToggleRootFS: runInChroot(MountTarget, update-grub)
GrubUpdate ==
    /\ Running /\ pc = "grub_update"
    /\ \E err \in CmdErrs :
          IF err = nil THEN Goto("grub_set", 1) /\ UNCHANGED tog
          ELSE Return(err) /\ tog' = [tog EXCEPT !.st = "fail"]
    /\ UNCHANGED <<env, disk, regs, sigv, toggled>>

\* grub.ToggleRootFS: one g.setBootVar(name, value)
GrubSetBootVar ==
    /\ Running /\ pc = "grub_set"
    /\ LET w == grubToggleWrites[idx]
       IN  \E err \in CmdErrs :
              IF err # nil
              THEN /\ Return(err)
                   /\ tog' = [tog EXCEPT !.st = "fail"]
                   /\ UNCHANGED grubenv
              ELSE /\ grubenv' = [grubenv EXCEPT ![w.Name] = w.Value]
                   /\ tog' = [tog EXCEPT
                                !.mode = @ \/ w.Name = bootloaderBootmodeVar,
                                !.ab = @ \/ w.Name = bootloaderRootfsVar,
                                !.st = IF idx = Len(grubToggleWrites) THEN "ok" ELSE @]
                   /\ IF idx = Len(grubToggleWrites) THEN Goto("undo", 0)
                      ELSE Goto("grub_set", idx + 1)
    /\ UNCHANGED <<env, unsynced, envFile, tmpFile, stampFile, regs, sigv>>
    /\ toggled' = (toggled \/ tog'.st = "ok")

\* grub.MarkCurrentBootSuccessful
GrubMarkCurrentBootSuccessful ==
    /\ Running /\ pc = "grub_mark"
    /\ \E err \in CmdErrs :
          /\ grubenv' = IF err = nil
                        THEN [grubenv EXCEPT ![bootloaderBootmodeVar] = bootloaderBootmodeSuccess]
                        ELSE grubenv
          /\ Return(err)
    /\ UNCHANGED <<env, unsynced, envFile, tmpFile, stampFile, regs, sigv, tog, toggled>>

\* modifyNameValueFile up to writeLines(lines, file.NEW): readLines fails on a
\* missing file; a failed writeLines leaves .NEW untouched or with a proper
\* prefix of the lines
UbootModify ==
    /\ Running /\ pc = "uboot_modify"
    /\ LET changes == IF op = "UpdateBootloader" THEN ubootToggleChanges ELSE ubootMarkChanges
       IN  IF envFile = NoFile
           THEN /\ Return("ENOENT")
                /\ tog' = IF op = "UpdateBootloader" THEN [tog EXCEPT !.st = "fail"] ELSE tog
                /\ UNCHANGED tmpFile
           ELSE LET new == modifyNameValueFile(envFile.lines, changes)
                IN  \E err \in CmdErrs :
                       IF err = nil
                       THEN /\ tmpFile' = File(new)
                            /\ Goto("uboot_rename", 0)
                            /\ UNCHANGED tog
                       ELSE /\ tmpFile' \in {tmpFile} \cup
                                   {File(SubSeq(new, 1, n)) : n \in 0..(Len(new) - 1)}
                            /\ Return(err)
                            /\ tog' = IF op = "UpdateBootloader"
                                      THEN [tog EXCEPT !.st = "fail"] ELSE tog
    /\ UNCHANGED <<env, unsynced, envFile, grubenv, stampFile, regs, sigv, toggled>>

\* atomicFileUpdate: os.Rename(file.NEW, file)
UbootRename ==
    /\ Running /\ pc = "uboot_rename"
    /\ \E err \in CmdErrs :
          /\ envFile' = rename(envFile, tmpFile, err)
          /\ tmpFile' = IF err = nil THEN NoFile ELSE tmpFile
          /\ unsynced' = (unsynced \/ err = nil)
          /\ IF err # nil
             THEN /\ Return(err)
                  /\ tog' = IF op = "UpdateBootloader"
                            THEN [tog EXCEPT !.st = "fail"] ELSE tog
             ELSE IF op = "UpdateBootloader"
             THEN /\ Goto("undo", 0)
                  /\ tog' = [tog EXCEPT !.st = "ok", !.mode = TRUE, !.ab = TRUE]
             ELSE /\ Goto("stamp", 0)
                  /\ UNCHANGED tog
    /\ UNCHANGED <<env, grubenv, stampFile, regs, sigv>>
    /\ toggled' = (toggled \/ tog'.st = "ok")

\* uboot.MarkCurrentBootSuccessful: os.RemoveAll(bootloaderUbootStampFile)
RemoveStamp ==
    /\ Running /\ pc = "stamp"
    /\ \E err \in CmdErrs :
          /\ stampFile' = IF err = nil THEN FALSE ELSE stampFile
          /\ Return(err)
    /\ UNCHANGED <<env, unsynced, envFile, tmpFile, grubenv, regs, sigv, tog, toggled>>

\* toggleBootloaderRootfs from unmountRequiredFilesystems on:
\* undoMounts(bindMounts), remountOther(RO), GetBootloader, HandleAssets
UnmountRequiredFilesystems ==
    /\ Running /\ pc = "undo"
    /\ \E k \in 0..Len(bindMounts), e2 \in CmdErrs, e3 \in CmdErrs :
          LET r == undoMounts(bindMounts, mounts, mtab, k)
              g == GetBootloader
          IN  IF r.res = "panic"
              THEN /\ proc' = "panic"
                   /\ UNCHANGED <<mounts, mtab, pc, op, bl, idx, ferr, nops, ret>>
              ELSE IF r.res # nil
              THEN /\ mounts' = r.mounts
                   /\ mtab' = r.mtab
                   /\ Return(r.res)
                   /\ UNCHANGED proc
              ELSE /\ e2 = nil => Mounted(r.mtab, MountTarget)
                   /\ mounts' = mount(r.mounts, MountTarget, e2)
                   /\ mtab' = IF e2 = nil THEN TabRemount(r.mtab, MountTarget, "ro")
                              ELSE r.mtab
                   /\ Return(IF e2 # nil THEN e2
                             ELSE IF g.err # nil THEN g.err
                             ELSE IF g.b = bootloaderNameGrub THEN nil ELSE e3)
                   /\ UNCHANGED proc
    /\ UNCHANGED <<env, disk, bindMounts, sig, hdl, tog, toggled>>

\* RunWithOther: the callback f(otherRoot) runs and returns
CallF ==
    /\ Running /\ pc = "f"
    /\ \E err \in CmdErrs :
          IF op = "RunWithOtherRW" /\ dualRootPartitions
          THEN /\ pc' = "defer"
               /\ ferr' = err
               /\ UNCHANGED <<op, bl, idx, nops, ret>>
          ELSE Return(err)
    /\ UNCHANGED <<env, disk, regs, sigv, tog, toggled>>

\* RunWithOther: the deferred "err = p.remountOther(RO)"
DeferRemountRO ==
    /\ Running /\ pc = "defer"
    /\ \E err \in CmdErrs :
          /\ err = nil => Mounted(mtab, MountTarget)
          /\ mounts' = mount(mounts, MountTarget, err)
          /\ mtab' = IF err = nil THEN TabRemount(mtab, MountTarget, "ro") ELSE mtab
          /\ Return(err)
    /\ UNCHANGED <<env, disk, bindMounts, sigv, tog, toggled>>

\* SIGINT or SIGTERM is delivered: the goroutine of setup_signal_handler wakes
Signal ==
    /\ Running /\ sig = "wait"
    /\ sig' = "caught"
    /\ UNCHANGED <<env, disk, regs, pc, op, bl, idx, ferr, nops, ret, proc, hdl, tog, toggled>>

\* signal_handler(sig) then os.Exit(1); a panic in undoMounts ends the process
\* before os.Exit is reached
SignalHandler ==
    /\ Running /\ sig = "caught"
    /\ \E k \in 0..Len(mounts) :
          LET r == undoMounts(mounts, mounts, mtab, k)
          IN  /\ mounts' = r.mounts
              /\ mtab' = r.mtab
              /\ hdl' = [ran |-> TRUE, res |-> r.res, log |-> r.log, before |-> mounts]
              /\ proc' = IF r.res = "panic" THEN "panic" ELSE "exit1"
    /\ sig' = "done"
    /\ UNCHANGED <<env, disk, bindMounts, pc, op, bl, idx, ferr, nops, ret, tog, toggled>>

\* the process has ended and the program is started again: init() installs
\* the signal handler, the registries are empty, and New() runs
\* getPartitionDetails, whose ensureOtherMountedRO mounts the other rootfs
\* read-only unless the mount target is a mount point already
Restart ==
    /\ proc \in {"panic", "exit1"} /\ nops < MaxOps
    /\ proc' = "running"
    /\ sig' = "wait"
    /\ hdl' = NoHandler
    /\ pc' = "idle"
    /\ op' = "none"
    /\ bl' = "none"
    /\ idx' = 0
    /\ ferr' = nil
    /\ ret' = NoReturn
    /\ tog' = NoToggle
    /\ bindMounts' = <<>>
    /\ IF dualRootPartitions /\ ~Mounted(mtab, MountTarget)
       THEN \E err \in CmdErrs :
               /\ mounts' = mount(<<>>, MountTarget, err)
               /\ mtab' = IF err = nil THEN Append(mtab, Mnt(MountTarget, "ro")) ELSE mtab
       ELSE /\ mounts' = <<>>
            /\ mtab' = mtab
    /\ UNCHANGED <<env, disk, nops, toggled>>

\* the kernel writes the dirty pages of snappy-system.txt back to the device
\* (the program itself never calls fsync)
Writeback ==
    /\ unsynced
    /\ unsynced' = FALSE
    /\ UNCHANGED <<env, envFile, tmpFile, grubenv, stampFile, regs, sigv, pc, op, bl,
                   idx, ferr, nops, ret, tog, toggled>>

\* what is found on the device after a power loss: data that were never
\* written back may be missing from any point on
AfterPowerLoss(file, dirty) ==
    IF dirty /\ file.exists
    THEN {File(SubSeq(file.lines, 1, n)) : n \in 0..Len(file.lines)}
    ELSE {file}

\* power is lost while the program runs
PowerLoss ==
    /\ Running
    /\ proc' = "off"
    /\ envFile' \in AfterPowerLoss(envFile, unsynced)
    /\ unsynced' = FALSE
    /\ UNCHANGED <<env, tmpFile, grubenv, stampFile, regs, sig, hdl, pc, op, bl,
                   idx, ferr, nops, ret, tog, toggled>>

Next ==
    \/ UpdateBootloader
    \/ RunWithOther
    \/ MarkBootSuccessful
    \/ NextBootIsOther
    \/ UnmountOtherRootfs
    \/ Fsck
    \/ MountOtherRW
    \/ BindmountRequiredFilesystems
    \/ HandleBootloader
    \/ GrubUpdate
    \/ GrubSetBootVar
    \/ GrubMarkCurrentBootSuccessful
    \/ UbootModify
    \/ UbootRename
    \/ RemoveStamp
    \/ UnmountRequiredFilesystems
    \/ CallF
    \/ DeferRemountRO
    \/ Signal
    \/ SignalHandler

Spec == Init /\ [][Next]_vars

\* a grub environment whose variables hold any of the values or are unset, on
\* a dual-root GRUB device at rest
InitVars ==
    /\ partitions = << Dev(ROOTFS_A_LABEL, "/"), Dev(ROOTFS_B_LABEL, ""),
                       Dev(WRITABLE_PARTITION_LABEL, "/writable") >>
    /\ installed = {bootloaderNameGrub}
    /\ envFile = NoFile
    /\ tmpFile = NoFile
    /\ grubenv = NoGrubEnv
    /\ stampFile = FALSE
    /\ mounts = <<>>
    /\ bindMounts = <<>>
    /\ mtab = <<Mnt(MountTarget, "ro")>>
    /\ pc = "idle"
    /\ op = "none"
    /\ bl = "none"
    /\ idx = 0
    /\ ferr = nil
    /\ nops = 0
    /\ ret = NoReturn
    /\ proc = "running"
    /\ sig = "wait"
    /\ hdl = NoHandler
    /\ tog = NoToggle
    /\ toggled = FALSE
    /\ unsynced = FALSE
    /\ \E old \in [Range(BootVars) -> {NoVar} \cup {Var(v) : v \in Values}] :
          rt = [NoRoundTrip EXCEPT !.st = "init", !.store = old]
    /\ probe = NoProbe
    /\ lockfile = 0
    /\ lk = NoProcs
    /\ xc = NoExitCall
    /\ assets = NoAssets

\* everything but the round trip
main == <<partitions, installed, envFile, tmpFile, grubenv, stampFile, mounts,
          bindMounts, mtab, pc, op, bl, idx, ferr, nops, ret, proc, sig, hdl, tog,
          toggled, unsynced, probe, lockfile, lk, xc, assets>>

\* grub.setBootVar(k, v): one grub-editenv set, which may fail
SetBootVar ==
    /\ rt.st = "init"
    /\ \E k \in Range(BootVars), v \in Values, err \in CmdErrs :
          rt' = [rt EXCEPT !.st = IF err = nil THEN "set" ELSE "failed",
                           !.k = k, !.v = v,
                           !.store = IF err = nil THEN editenvSet(@, Sprintf(k, v)) ELSE @]
    /\ UNCHANGED main

\* grub.GetBootVar(k) after the setBootVar(k, v) that succeeded
GetBootVarBack ==
    /\ rt.st = "set"
    /\ \E err \in CmdErrs :
          rt' = [rt EXCEPT !.st = "got",
                           !.got = IF err # nil THEN [value |-> <<>>, err |-> err]
                                   ELSE cfgGetChars(editenvList(rt.store, 1), rt.k)]
    /\ UNCHANGED main

NextVars ==
    \/ SetBootVar
    \/ GetBootVarBack

SpecVars == InitVars /\ [][NextVars]_vars

\* ------------------------------------------------ building the partition model

allPartitionLabels ==
    rootPartitionLabels \o <<BOOT_PARTITION_LABEL, WRITABLE_PARTITION_LABEL>>

\* the rows of an lsblk listing that loadPartitionDetails keeps: a recognised
\* label, mounted at "/" or not
ProbeDevs == {Dev(l, mp) : l \in Range(allPartitionLabels), mp \in {"/", ""}}

ProbeListings == UNION {[1..n -> ProbeDevs] : n \in 0..MaxParts}

PartitionDetectionError == "PartitionDetectionError"

\* position in roots of the first partition that is (at = TRUE) or is not
\* (at = FALSE) mounted at "/"; 0 for the nil pointer
FirstRoot(roots, at) ==
    IF \E i \in 1..Len(roots) : (roots[i].mountpoint = "/") = at
    THEN CHOOSE i \in 1..Len(roots) :
            /\ (roots[i].mountpoint = "/") = at
            /\ \A j \in 1..(i - 1) : (roots[j].mountpoint = "/") # at
    ELSE 0

\* a device on which the program has not yet built its partition model
InitProbe ==
    /\ partitions = <<>>
    /\ installed = {bootloaderNameUboot}
    /\ envFile \in InitEnvFiles
    /\ tmpFile = NoFile
    /\ grubenv = NoGrubEnv
    /\ stampFile = FALSE
    /\ mounts = <<>>
    /\ bindMounts = <<>>
    /\ mtab \in {<<>>, <<Mnt(MountTarget, "ro")>>}
    /\ pc = "idle"
    /\ op = "none"
    /\ bl = "none"
    /\ idx = 0
    /\ ferr = nil
    /\ nops = 0
    /\ ret = NoReturn
    /\ proc = "new"
    /\ sig = "wait"
    /\ hdl = NoHandler
    /\ tog = NoToggle
    /\ toggled = FALSE
    /\ unsynced = FALSE
    /\ rt = NoRoundTrip
    /\ \E l \in ProbeListings : probe = [NoProbe EXCEPT !.st = "init", !.listing = l]
    /\ lockfile = 0
    /\ lk = NoProcs
    /\ xc = NoExitCall
    /\ assets = NoAssets

\* New(): getPartitionDetails (loadPartitionDetails, the root partition count,
\* ensureOtherMountedRO on a dual-root listing), whose error New() does not
\* look at; mountOtherRootfs dereferences otherRootPartition()
New ==
    /\ proc = "new" /\ probe.st = "init"
    /\ \E lsblk \in CmdErrs, err \in CmdErrs :
          LET parts == IF lsblk = nil THEN probe.listing ELSE <<>>
              roots == FilterRoots(parts)
          IN  /\ partitions' = parts
              /\ IF lsblk # nil
                 THEN /\ probe' = [probe EXCEPT !.st = "built", !.lsblk = lsblk, !.err = lsblk]
                      /\ proc' = "running"
                      /\ UNCHANGED <<mounts, mtab>>
                 ELSE IF Len(roots) # 2 /\ Len(roots) # 1
                 THEN /\ probe' = [probe EXCEPT !.st = "built",
                                                !.err = PartitionDetectionError]
                      /\ proc' = "running"
                      /\ UNCHANGED <<mounts, mtab>>
                 ELSE IF Len(roots) = 1 \/ Mounted(mtab, MountTarget)
                 THEN /\ probe' = [probe EXCEPT !.st = "built", !.err = nil]
                      /\ proc' = "running"
                      /\ UNCHANGED <<mounts, mtab>>
                 ELSE IF FirstRoot(roots, FALSE) = 0
                 THEN /\ probe' = [probe EXCEPT !.st = "built", !.err = "panic"]
                      /\ proc' = "panic"
                      /\ UNCHANGED <<mounts, mtab>>
                 ELSE /\ probe' = [probe EXCEPT !.st = "built", !.err = err]
                      /\ proc' = "running"
                      /\ mounts' = mount(mounts, MountTarget, err)
                      /\ mtab' = IF err = nil THEN Append(mtab, Mnt(MountTarget, "ro"))
                                 ELSE mtab
    /\ UNCHANGED <<installed, rt, lockfile, lk, xc, assets, disk, bindMounts, pc, op, bl, idx, ferr,
                   nops, ret, sig, hdl, tog, toggled>>

\* newBootloader(p) on the model New() built: rootPartition() is dereferenced
\* unchecked, a nil otherRootPartition() gives no bootloader, otherwise the
\* two tags are the last characters of the two labels
NewBootloader ==
    /\ Running /\ pc = "idle" /\ probe.st = "built"
    /\ LET roots == rootPartitions
           cur == FirstRoot(roots, TRUE)
           oth == FirstRoot(roots, FALSE)
       IN  IF cur = 0
           THEN /\ probe' = [probe EXCEPT !.st = "classified", !.oth = oth]
                /\ proc' = "panic"
           ELSE IF oth = 0
           THEN /\ probe' = [probe EXCEPT !.st = "classified", !.cur = cur]
                /\ UNCHANGED proc
           ELSE /\ probe' = [probe EXCEPT !.st = "classified", !.cur = cur, !.oth = oth,
                                          !.curTag = LastChar(roots[cur].name),
                                          !.othTag = LastChar(roots[oth].name)]
                /\ UNCHANGED proc
    /\ UNCHANGED <<partitions, installed, rt, lockfile, lk, xc, assets, disk, regs, pc, op, bl, idx,
                   ferr, nops, ret, sig, hdl, tog, toggled>>

\* the constructor, the classification, and the coordinator operations a
\* caller starts on what New() returned
NextProbe ==
    \/ New
    \/ NewBootloader
    \/ UpdateBootloader
    \/ RunWithOther
    \/ CallF

SpecProbe == InitProbe /\ [][NextProbe]_vars

\* ------------------------------------------------------ the host-level lock

\* uids a process of the tool can run under
Uids == {0, 1000}

\* a faulty isRoot: every uid passes
isRootAlways(uid) == TRUE

\* isRoot: syscall.Getuid() == 0
isRoot(uid) == uid = 0

ErrRequiresRoot == "command requires sudo (root)"

ErrPrivOpInProgress == "privileged operation already in progress"

\* the coordinator the commands drive is left alone
coordinator == <<partitions, installed, envFile, tmpFile, grubenv, stampFile, mounts,
                 bindMounts, mtab, pc, op, bl, idx, ferr, nops, ret, proc, sig, hdl,
                 tog, toggled, unsynced, rt, probe, xc, assets>>

\* the process has not ended
Alive(p) == lk[p].pc \notin {"done", "killed"}

\* the command's Execute returns e and the process ends
Exit(p, e) == lk' = [lk EXCEPT ![p].pc = "done", ![p].err = e]

\* the processes of the update and the booted command, about to call Execute
InitLock ==
    /\ partitions = << Dev(ROOTFS_A_LABEL, "/"), Dev(ROOTFS_B_LABEL, ""),
                       Dev(WRITABLE_PARTITION_LABEL, "/writable") >>
    /\ installed = {bootloaderNameGrub}
    /\ envFile = NoFile
    /\ tmpFile = NoFile
    /\ grubenv = NoGrubEnv
    /\ stampFile = FALSE
    /\ mounts = <<>>
    /\ bindMounts = <<>>
    /\ mtab = <<Mnt(MountTarget, "ro")>>
    /\ pc = "idle"
    /\ op = "none"
    /\ bl = "none"
    /\ idx = 0
    /\ ferr = nil
    /\ nops = 0
    /\ ret = NoReturn
    /\ proc = "running"
    /\ sig = "wait"
    /\ hdl = NoHandler
    /\ tog = NoToggle
    /\ toggled = FALSE
    /\ unsynced = FALSE
    /\ rt = NoRoundTrip
    /\ probe = NoProbe
    /\ lockfile = 0
    /\ lk \in [Procs -> {[cmd |-> c, uid |-> u, pc |-> "start", lock |-> "nil",
                          sg |-> "wait", err |-> nil] :
                            c \in {"update", "booted"}, u \in Uids}]
    /\ xc = NoExitCall
    /\ assets = NoAssets

\* cmdUpdate.Execute calls StartPrivileged: the isRoot check
StartPrivileged ==
    \E p \in Procs :
       /\ lk[p].cmd = "update" /\ lk[p].pc = "start"
       /\ IF ~isRoot(lk[p].uid) THEN Exit(p, ErrRequiresRoot)
          ELSE lk' = [lk EXCEPT ![p].pc = "create"]
       /\ UNCHANGED <<coordinator, lockfile>>

\* createLock, one turn of its loop up to the FileExists check: lock =
\* new(SnappyLock), os.OpenFile with O_CREATE|O_EXCL, syscall.Flock(LOCK_EX)
\* on the file just created; StartPrivileged turns every error into the
\* operation-in-progress error
CreateLock ==
    \E p \in Procs :
       /\ lk[p].pc = "create"
       /\ IF lockfile # 0
          THEN /\ lk' = [lk EXCEPT ![p].lock = "new", ![p].pc = "done",
                                   ![p].err = ErrPrivOpInProgress]
               /\ UNCHANGED lockfile
          ELSE \E open \in CmdErrs, flock \in CmdErrs :
                  IF open # nil
                  THEN /\ lk' = [lk EXCEPT ![p].lock = "new", ![p].pc = "done",
                                           ![p].err = ErrPrivOpInProgress]
                       /\ UNCHANGED lockfile
                  ELSE /\ lockfile' = p
                       /\ lk' = [lk EXCEPT ![p].lock = "open",
                                           ![p].pc = IF flock = nil THEN "exists" ELSE "done",
                                           ![p].err = IF flock = nil THEN nil
                                                      ELSE ErrPrivOpInProgress]
       /\ UNCHANGED coordinator

\* createLock: "if FileExists(lock.filename) { break }", else once more;
\* StartPrivileged then returns nil and update() begins
CreateLockExists ==
    \E p \in Procs :
       /\ lk[p].pc = "exists"
       /\ lk' = [lk EXCEPT ![p].pc = IF lockfile # 0 THEN "update" ELSE "create"]
       /\ UNCHANGED <<coordinator, lockfile>>

\* cmdUpdate.Execute: update() returns; on an error Execute returns it
\* without calling StopPrivileged
Update ==
    \E p \in Procs :
       /\ lk[p].pc = "update"
       /\ \E err \in CmdErrs :
             IF err # nil THEN Exit(p, err)
             ELSE lk' = [lk EXCEPT ![p].pc = "unlink"]
       /\ UNCHANGED <<coordinator, lockfile>>

\* StopPrivileged = removeLock, up to the unlink: Flock(LOCK_UN), then
\* os.Remove(lock.filename); "lock" may have been set to nil by the signal
\* goroutine, and lock.file then is a nil pointer dereference
RemoveLock ==
    \E p \in Procs :
       /\ lk[p].pc = "unlink"
       /\ IF lk[p].lock = "nil"
          THEN Exit(p, "panic") /\ UNCHANGED lockfile
          ELSE \E flock \in CmdErrs :
                  IF flock # nil THEN Exit(p, flock) /\ UNCHANGED lockfile
                  ELSE IF lockfile = 0 THEN Exit(p, "ENOENT") /\ UNCHANGED lockfile
                  ELSE /\ lockfile' = 0
                       /\ lk' = [lk EXCEPT ![p].pc = "close"]
       /\ UNCHANGED coordinator

\* removeLock: lock.file.Close(), lock = nil, and Execute returns
RemoveLockClose ==
    \E p \in Procs :
       /\ lk[p].pc = "close"
       /\ IF lk[p].lock = "nil" THEN Exit(p, "panic")
          ELSE \E err \in CmdErrs :
                  lk' = [lk EXCEPT ![p].pc = "done", ![p].err = err,
                                   ![p].lock = IF err = nil THEN "nil" ELSE @]
       /\ UNCHANGED <<coordinator, lockfile>>

\* cmdBooted.Execute: the isRoot check, and no lock
BootedExecute ==
    \E p \in Procs :
       /\ lk[p].cmd = "booted" /\ lk[p].pc = "start"
       /\ IF ~isRoot(lk[p].uid) THEN Exit(p, ErrRequiresRoot)
          ELSE lk' = [lk EXCEPT ![p].pc = "booted"]
       /\ UNCHANGED <<coordinator, lockfile>>

\* cmdBooted.Execute: MarkBootSuccessful returns
BootedReturn ==
    \E p \in Procs :
       /\ lk[p].pc = "booted"
       /\ \E err \in CmdErrs : Exit(p, err)
       /\ UNCHANGED <<coordinator, lockfile>>

\* SIGINT or SIGTERM is delivered to a process: its signal goroutines wake
LockSignal ==
    \E p \in Procs :
       /\ Alive(p) /\ lk[p].sg = "wait"
       /\ lk' = [lk EXCEPT ![p].sg = "caught"]
       /\ UNCHANGED <<coordinator, lockfile>>

\* signalHandler: nothing when lock == nil, else removeLock up to the unlink
\* (Flock on the nil file of a lock that was never opened fails)
LockSignalHandler ==
    \E p \in Procs :
       /\ Alive(p) /\ lk[p].sg = "caught"
       /\ IF lk[p].lock # "open"
          THEN /\ lk' = [lk EXCEPT ![p].sg = "exit"]
               /\ UNCHANGED lockfile
          ELSE \E flock \in CmdErrs :
                  IF flock # nil \/ lockfile = 0
                  THEN /\ lk' = [lk EXCEPT ![p].sg = "exit"]
                       /\ UNCHANGED lockfile
                  ELSE /\ lockfile' = 0
                       /\ lk' = [lk EXCEPT ![p].sg = "close"]
       /\ UNCHANGED coordinator

\* signalHandler: removeLock's lock.file.Close() and lock = nil
LockSignalClose ==
    \E p \in Procs :
       /\ Alive(p) /\ lk[p].sg = "close"
       /\ \E err \in CmdErrs :
             lk' = [lk EXCEPT ![p].sg = "exit",
                              ![p].lock = IF err = nil /\ @ = "open" THEN "nil" ELSE @]
       /\ UNCHANGED <<coordinator, lockfile>>

\* the signal goroutine's os.Exit(1) after signalHandler returned
LockSignalExit ==
    \E p \in Procs :
       /\ Alive(p) /\ lk[p].sg = "exit"
       /\ lk' = [lk EXCEPT ![p].pc = "killed"]
       /\ UNCHANGED <<coordinator, lockfile>>

\* the os.Exit(1) of the partition package's signal goroutine, woken by the
\* same signal, ends the process wherever signalHandler is
PartitionSignalExit ==
    \E p \in Procs :
       /\ Alive(p) /\ lk[p].sg \in {"caught", "close"}
       /\ lk' = [lk EXCEPT ![p].pc = "killed"]
       /\ UNCHANGED <<coordinator, lockfile>>

NextLock ==
    \/ StartPrivileged
    \/ CreateLock
    \/ CreateLockExists
    \/ Update
    \/ RemoveLock
    \/ RemoveLockClose
    \/ BootedExecute
    \/ BootedReturn
    \/ LockSignal
    \/ LockSignalHandler
    \/ LockSignalClose
    \/ LockSignalExit
    \/ PartitionSignalExit

SpecLock == InitLock /\ [][NextLock]_vars

\* ------------------------------------------------------- the exit-code helper

\* signals that end a child
Signals == {9, 15}

\* the wait status the kernel reports for a child that called exit(n), and
\* for a child ended by signal s
WaitExited(n) == (n % 256) * 256

WaitSignaled(s) == s

\* a faulty ExitStatus: the status word is not decoded
ExitStatusRaw(w) == w

\* syscall.WaitStatus.ExitStatus(): -1 unless the child exited, else bits 8..15
ExitStatus(w) == IF w % 128 # 0 THEN -1 ELSE (w \div 256) % 256

\* exitCode / ExitCode: (e, err) for the error of a failed cmd.Run()
exitCode(runErr) ==
    IF runErr.kind = "exit"
    THEN [e |-> ExitStatus(runErr.ws), err |-> nilErr]
    ELSE [e |-> 0, err |-> runErr]

\* the ways cmd.Run() ends: the child exits with status n > 0 or is ended by
\* a signal (an *exec.ExitError), the child cannot be started (another error),
\* or the child exits with status 0 (nil)
ExitCalls ==
    {[NoExitCall EXCEPT !.st = "init", !.how = "exit", !.n = n,
                        !.runErr = Err("exit", WaitExited(n), "exit status")] :
        n \in 1..MaxExit}
    \cup
    {[NoExitCall EXCEPT !.st = "init", !.how = "signal", !.n = sgn,
                        !.runErr = Err("exit", WaitSignaled(sgn), "signal")] :
        sgn \in Signals}
    \cup
    {[NoExitCall EXCEPT !.st = "init", !.how = "not started",
                        !.runErr = Err("other", 0, msg)] :
        msg \in {"executable file not found", "no such file or directory"}}
    \cup
    {[NoExitCall EXCEPT !.st = "init", !.how = "exit"]}

InitExit ==
    /\ partitions = << Dev(ROOTFS_A_LABEL, "/"), Dev(ROOTFS_B_LABEL, ""),
                       Dev(WRITABLE_PARTITION_LABEL, "/writable") >>
    /\ installed = {bootloaderNameGrub}
    /\ envFile = NoFile
    /\ tmpFile = NoFile
    /\ grubenv = NoGrubEnv
    /\ stampFile = FALSE
    /\ mounts = <<>>
    /\ bindMounts = <<>>
    /\ mtab = <<Mnt(MountTarget, "ro")>>
    /\ pc = "idle"
    /\ op = "none"
    /\ bl = "none"
    /\ idx = 0
    /\ ferr = nil
    /\ nops = 0
    /\ ret = NoReturn
    /\ proc = "running"
    /\ sig = "wait"
    /\ hdl = NoHandler
    /\ tog = NoToggle
    /\ toggled = FALSE
    /\ unsynced = FALSE
    /\ rt = NoRoundTrip
    /\ probe = NoProbe
    /\ lockfile = 0
    /\ lk = NoProcs
    /\ xc \in ExitCalls
    /\ assets = NoAssets

\* e, err := exitCode(runErr)
ExitCode ==
    /\ xc.st = "init"
    /\ LET r == exitCode(xc.runErr)
       IN  xc' = [xc EXCEPT !.st = "done", !.e = r.e, !.err = r.err]
    /\ UNCHANGED <<partitions, installed, envFile, tmpFile, grubenv, stampFile, mounts,
                   bindMounts, mtab, pc, op, bl, idx, ferr, nops, ret, proc, sig, hdl,
                   tog, toggled, unsynced, rt, probe, lockfile, lk, assets>>

NextExit ==
    \/ ExitCode

SpecExit == InitExit /\ [][NextExit]_vars

\* ------------------------------------------------------------ HandleAssets

HARDWARE_SPEC_FILE == "hardware.yaml"
FLASH_ASSETS_DIR == "flashtool-assets"

\* the partition layout a dual-root hardware spec names
bootloaderSystemAB == "system-AB"

\* the error HandleAssets takes for "no hardware spec"
ErrNoHardwareYaml == "ErrNoHardwareYaml"

\* paths below the cache directory an upgrade can name in hardware.yaml
KernelFile == "assets/vmlinuz"
InitrdFile == "assets/initrd.img"
DtbsDir == "assets/dtbs"

\* filepath.Dir(path), relative to the cache directory
Dir(f) == IF f \in {KernelFile, InitrdFile, DtbsDir} THEN "assets" ELSE "."

\* os.RemoveAll(d) for each d of dirs: the directory and all below it
RemoveAll(cache, dirs) == {f \in cache : f \notin dirs /\ Dir(f) \notin dirs}

\* the contents hardware.yaml can have
HardwareSpecs ==
    { NoSpec, [NoSpec EXCEPT !.state = "unparsable"] }
    \cup
    { [state |-> "parsed", Kernel |-> k, Initrd |-> i, DtbDir |-> DtbsDir,
       PartitionLayout |-> l, Bootloader |-> b] :
         k \in {"", KernelFile}, i \in {"", InitrdFile},
         l \in {bootloaderSystemAB, "single"},
         b \in {bootloaderNameUboot, bootloaderNameGrub} }

\* Partition.hardwareSpec: ioutil.ReadFile, then yaml.Unmarshal; the error of
\* either is returned as it is
hardwareSpec(a) ==
    IF HARDWARE_SPEC_FILE \notin a.cache THEN [h |-> NoSpec, err |-> "ENOENT"]
    ELSE IF a.hw.state = "unparsable" THEN [h |-> NoSpec, err |-> "yaml"]
    ELSE [h |-> a.hw, err |-> nil]

\* uboot.HandleAssets, the loop over hardware.Kernel and hardware.Initrd: the
\* error it ends with, the boot slot, and the directories whose removal it
\* deferred
RECURSIVE installFiles(_, _, _, _, _)
installFiles(files, i, cache, slot, errs) ==
    IF i > Len(files) THEN [err |-> nil, slot |-> slot, deferred |-> {}]
    ELSE IF files[i] = "" THEN installFiles(files, i + 1, cache, slot, errs)
    ELSE IF files[i] \notin cache
    THEN [err |-> "can not find file", slot |-> slot, deferred |-> {}]
    ELSE IF errs[i] # nil
    THEN [err |-> errs[i], slot |-> slot, deferred |-> {Dir(files[i])}]
    ELSE LET r == installFiles(files, i + 1, cache, slot \cup {files[i]}, errs)
         IN  [r EXCEPT !.deferred = @ \cup {Dir(files[i])}]

\* the errors the commands of one HandleAssets can meet
AssetErrs ==
    [mkdir : CmdErrs, cp : [1..2 -> CmdErrs], dtbMkdir : CmdErrs, dtbCp : CmdErrs,
     flash : CmdErrs]

\* uboot.HandleAssets: the error returned, and the cache directory and the
\* other boot slot once the deferred removals have run
ubootHandleAssets(a, e) ==
    LET r == hardwareSpec(a)
        h == r.h
        \* return err, after the deferred removals of dirs and of hardware.yaml
        done(err, dirs, slot) ==
            [err |-> err, slot |-> slot,
             cache |-> RemoveAll(a.cache, dirs) \ {HARDWARE_SPEC_FILE}]
    IN  IF r.err = ErrNoHardwareYaml
        THEN [err |-> nil, slot |-> a.slot, cache |-> a.cache]
        ELSE IF r.err # nil
        THEN [err |-> r.err, slot |-> a.slot, cache |-> a.cache]
        ELSE IF h.Bootloader # bootloaderNameUboot
        THEN done("bootloader mismatch", {}, a.slot)
        ELSE IF dualRootPartitions /\ h.PartitionLayout # bootloaderSystemAB
        THEN done("requires dual root partitions", {}, a.slot)
        ELSE IF e.mkdir # nil
        THEN done(e.mkdir, {}, a.slot)
        ELSE LET f == installFiles(<<h.Kernel, h.Initrd>>, 1, a.cache, a.slot, e.cp)
                 dtb == h.DtbDir \in a.cache
                 dirs == f.deferred \cup (IF dtb THEN {h.DtbDir} ELSE {})
                 slot == f.slot \cup (IF dtb THEN {"dtbs"} ELSE {})
             IN  IF f.err # nil THEN done(f.err, f.deferred, f.slot)
                 ELSE IF dtb /\ e.dtbMkdir # nil THEN done(e.dtbMkdir, dirs, f.slot)
                 ELSE IF dtb /\ e.dtbCp # nil THEN done(e.dtbCp, dirs, slot)
                 ELSE IF FLASH_ASSETS_DIR \in a.cache /\ e.flash # nil
                 THEN done(e.flash, dirs, slot)
                 ELSE done(nil, dirs \cup {FLASH_ASSETS_DIR}, slot)

\* the calls of HandleAssets: hardware.yaml exists or not, and any of the
\* files it can name and the flash assets are in the cache directory
AssetCalls ==
    { a \in { [NoAssets EXCEPT !.st = "init", !.hw = h, !.cache = c, !.before = c] :
                h \in HardwareSpecs,
                c \in SUBSET {HARDWARE_SPEC_FILE, KernelFile, InitrdFile, DtbsDir,
                              FLASH_ASSETS_DIR} } :
        (HARDWARE_SPEC_FILE \in a.cache) <=> (a.hw.state # "missing") }

InitAssets ==
    /\ partitions \in Listings
    /\ installed \in SUBSET {bootloaderNameUboot, bootloaderNameGrub}
    /\ envFile = NoFile
    /\ tmpFile = NoFile
    /\ grubenv = NoGrubEnv
    /\ stampFile = FALSE
    /\ mounts = <<>>
    /\ bindMounts = <<>>
    /\ mtab = <<>>
    /\ pc = "idle"
    /\ op = "none"
    /\ bl = "none"
    /\ idx = 0
    /\ ferr = nil
    /\ nops = 0
    /\ ret = NoReturn
    /\ proc = "running"
    /\ sig = "wait"
    /\ hdl = NoHandler
    /\ tog = NoToggle
    /\ toggled = FALSE
    /\ unsynced = FALSE
    /\ rt = NoRoundTrip
    /\ probe = NoProbe
    /\ lockfile = 0
    /\ lk = NoProcs
    /\ xc = NoExitCall
    /\ assets \in AssetCalls

\* bootloader.HandleAssets() on the U-Boot variant
UbootHandleAssets ==
    /\ assets.st = "init"
    /\ GetBootloader.err = nil /\ GetBootloader.b = bootloaderNameUboot
    /\ \E e \in AssetErrs :
          LET r == ubootHandleAssets(assets, e)
          IN  assets' = [assets EXCEPT !.st = "done", !.b = bootloaderNameUboot,
                                       !.err = r.err, !.cache = r.cache, !.slot = r.slot]
    /\ UNCHANGED <<partitions, installed, envFile, tmpFile, grubenv, stampFile, mounts,
                   bindMounts, mtab, pc, op, bl, idx, ferr, nops, ret, proc, sig, hdl,
                   tog, toggled, unsynced, rt, probe, lockfile, lk, xc>>

\* bootloader.HandleAssets() on the GRUB variant: "NOP"
GrubHandleAssets ==
    /\ assets.st = "init"
    /\ GetBootloader.err = nil /\ GetBootloader.b = bootloaderNameGrub
    /\ assets' = [assets EXCEPT !.st = "done", !.b = bootloaderNameGrub, !.err = nil]
    /\ UNCHANGED <<partitions, installed, envFile, tmpFile, grubenv, stampFile, mounts,
                   bindMounts, mtab, pc, op, bl, idx, ferr, nops, ret, proc, sig, hdl,
                   tog, toggled, unsynced, rt, probe, lockfile, lk, xc>>

NextAssets ==
    \/ UbootHandleAssets
    \/ GrubHandleAssets

SpecAssets == InitAssets /\ [][NextAssets]_vars

\* ------------------------------------- mount() against the signal goroutine

\* mount(other.device, p.MountTarget(), ""), first half: runCommand(/bin/mount)
\* has returned; on success the target is mounted and not yet appended
MountCommand ==
    /\ Running /\ pc = "rw_mount"
    /\ \E err \in CmdErrs :
          /\ mtab' = IF err = nil THEN Append(mtab, Mnt(MountTarget, "rw")) ELSE mtab
          /\ IF err # nil THEN Return(err) ELSE Goto("rw_register", 0)
    /\ UNCHANGED <<env, disk, mounts, bindMounts, sigv, tog, toggled>>

\* mount(), second half: mounts = append(mounts, target), and remountOther
\* returns nil to RunWithOther
MountRegister ==
    /\ Running /\ pc = "rw_register"
    /\ mounts' = mount(mounts, MountTarget, nil)
    /\ Goto("f", 0)
    /\ UNCHANGED <<env, disk, bindMounts, mtab, sigv, tog, toggled>>

\* RunWithOther with the signal goroutine free to run between the two halves
\* of mount(): the goroutine reads the package variable mounts with no
\* synchronisation, and sees it as it was before or after the append
NextRace ==
    \/ RunWithOther
    \/ UnmountOtherRootfs
    \/ Fsck
    \/ MountCommand
    \/ MountRegister
    \/ CallF
    \/ DeferRemountRO
    \/ Signal
    \/ SignalHandler

SpecRace == Init /\ [][NextRace]_vars

\* the steps of the update command (UpdateBootloader) and of the booted
\* command (MarkBootSuccessful), and the signal goroutine
Commands ==
    \/ UpdateBootloader
    \/ MarkBootSuccessful
    \/ UnmountOtherRootfs
    \/ Fsck
    \/ MountOtherRW
    \/ BindmountRequiredFilesystems
    \/ HandleBootloader
    \/ GrubUpdate
    \/ GrubSetBootVar
    \/ GrubMarkCurrentBootSuccessful
    \/ UbootModify
    \/ UbootRename
    \/ RemoveStamp
    \/ UnmountRequiredFilesystems
    \/ Signal
    \/ SignalHandler

\* the two commands run process after process: a process that has ended is
\* followed by a new one
NextRestart ==
    \/ Commands
    \/ Restart

SpecRestart == Init /\ [][NextRestart]_vars

\* the two commands on a device whose power can fail
NextPower ==
    \/ Commands
    \/ Writeback
    \/ PowerLoss

SpecPower == Init /\ [][NextPower]_vars

\* ------------------------------------------------------------------ claims

\* the variable as the selected variant reads it back
ReadBack(name) == GetBootVar(GetBootloader.b, name).value

RECURSIVE Reverse(_)
Reverse(s) == IF s = <<>> THEN <<>> ELSE Append(Reverse(Tail(s)), Head(s))

IsPrefix(s, t) == Len(s) <= Len(t) /\ s = SubSeq(t, 1, Len(s))

\* UpdateBootloader returned at or after handleBootloader, i.e. after the
\* bind-mount step had completed
ReturnedAfterBind ==
    /\ pc = "idle"
    /\ ret.op = "UpdateBootloader"
    /\ ret.at \in {"bootloader", "grub_update", "grub_set", "uboot_modify",
                   "uboot_rename", "undo"}

C2_TeardownOnError ==
    (ReturnedAfterBind /\ ret.err # nil)
        => /\ \A t \in Range(bindMounts) : ~Mounted(mtab, t)
           /\ OtherMode = "ro"

\* C3 (as claimed): during or after a failed ToggleRootFS bootmode is "try"
\* by this toggle only if its write of next_rootfs had succeeded before.
C3_NoTryWithoutRootfs ==
    (tog.st = "fail" /\ tog.mode /\ ReadBack(bootloaderBootmodeVar) = bootloaderBootmodeTry)
        => tog.ab

\* C3 (amended): a failed ToggleRootFS never changes next_rootfs; on U-Boot it
\* leaves both variables as they were, on GRUB it may leave bootmode = "try"
\* (written first) with the old next_rootfs.
C3_FailedToggleKeepsRootfs ==
    tog.st = "fail"
        => /\ ~tog.ab
           /\ ReadBack(bootloaderRootfsVar) = tog.preAb
           /\ GetBootloader.b = bootloaderNameUboot
                 => ~tog.mode /\ ReadBack(bootloaderBootmodeVar) = tog.preMode
           /\ GetBootloader.b = bootloaderNameGrub
                 => \/ ~tog.mode /\ ReadBack(bootloaderBootmodeVar) = tog.preMode
                    \/ tog.mode /\ ReadBack(bootloaderBootmodeVar) = bootloaderBootmodeTry

\* C3 witness: GRUB's second write failed after bootmode = "try" was written.
C3_Witness ==
    /\ tog.st = "fail" /\ tog.mode /\ ~tog.ab
    /\ tog.preMode # bootloaderBootmodeTry
    /\ ReadBack(bootloaderBootmodeVar) = bootloaderBootmodeTry
    /\ ReadBack(bootloaderRootfsVar) = tog.preAb
    /\ tog.preAb # otherRootfs

C5_SignalCleansUp ==
    hdl.ran
        => /\ \A t \in Range(hdl.before) : ~Mounted(mtab, t)
           /\ proc = "exit1"

\* C6: undoMounts unmounts the registry's entries last-first, each once, and
\* stops at the first umount that fails: the umounts it issued are a prefix
\* of the reversed registry, all of it when it returns nil.
C6_UndoInReverseOrder ==
    /\ hdl.ran
          => /\ hdl.res # "panic"
             /\ IsPrefix(hdl.log, Reverse(hdl.before))
             /\ hdl.res = nil => hdl.log = Reverse(hdl.before)
    /\ (pc = "undo" /\ ~hdl.ran /\ bindMounts # <<>>) => proc = "running"

\* C7: the signal handler undoes every bind mount, and it does so before it
\* unmounts any plain mount.
C7_BindMountsFirst ==
    hdl.ran
        => /\ \A i, j \in 1..Len(hdl.log) :
                 (hdl.log[i] \in Range(bindMounts) /\ hdl.log[j] \notin Range(bindMounts))
                     => i < j
           /\ hdl.res # "failed" => \A t \in Range(bindMounts) : ~Mounted(mtab, t)

\* C8: with the registries empty the signal handler issues no umount, meets
\* no error and exits with status 1; and after a teardown that completed, a
\* second undoMounts issues no umount and returns nil.
C8_EmptyRegistrySafe ==
    /\ (hdl.ran /\ hdl.before = <<>>)
          => hdl.res = nil /\ hdl.log = <<>> /\ proc = "exit1"
    /\ (hdl.ran /\ hdl.res = nil)
          => \A k \in 0..Len(mounts) :
                LET again == undoMounts(mounts, mounts, mtab, k)
                IN  again.res = nil /\ again.log = <<>> /\ again.mtab = mtab

\* C8 witness: the handler ran on empty registries while the other rootfs was
\* mounted by the system, and exited.
C8_Witness ==
    /\ hdl.ran /\ hdl.before = <<>> /\ bindMounts = <<>>
    /\ proc = "exit1" /\ nops > 0 /\ OtherMode = "ro"

\* C9: right after a successful unmount(target) no registry lists target.
C9_UnmountRemoves ==
    pc = "rw_fsck"
        => /\ MountTarget \notin Range(mounts)
           /\ MountTarget \notin Range(bindMounts)

\* C10: a successful mount appends its target to the plain-mount registry, a
\* successful bindmount appends its target to the bind-mount registry, and a
\* failed mount or bindmount leaves both registries unchanged.
C10_MountAppends ==
    [][ /\ (pc = "rw_mount" /\ pc' # pc)
              => IF pc' = "idle"
                 THEN mounts' = mounts /\ bindMounts' = bindMounts
                 ELSE mounts' = Append(mounts, MountTarget) /\ bindMounts' = bindMounts
        /\ (pc = "defer" /\ pc' # pc)
              => IF ret'.err # nil
                 THEN mounts' = mounts /\ bindMounts' = bindMounts
                 ELSE mounts' = Append(mounts, MountTarget) /\ bindMounts' = bindMounts
        /\ (pc = "bind" /\ (pc' # pc \/ idx' # idx))
              => IF pc' = "idle"
                 THEN mounts' = mounts /\ bindMounts' = bindMounts
                 ELSE bindMounts' = Append(bindMounts, Join(BindList[idx]))
      ]_vars

\* C10 witness: the three chroot bind mounts and the boot partition's have
\* been registered, in order, at the end of both registries.
C10_Witness ==
    /\ pc = "bootloader"
    /\ bindMounts = <<Join("/dev"), Join("/proc"), Join("/sys"), Join("/boot/uboot")>>
    /\ mounts = <<MountTarget>> \o bindMounts

\* C11: NextBootIsOther returns true exactly when the bootloader was selected,
\* the bootmode read succeeded and gave "try", and the next-rootfs read
\* succeeded and gave otherTag; it returns false when the selection or either
\* read failed.  The values read are the stored ones.
C11_NextBootIsOther ==
    (pc = "idle" /\ ret.op = "NextBootIsOther")
        => /\ ret.val <=> /\ ret.sel = nil
                          /\ ret.mode.err = nil
                          /\ ret.mode.value = bootloaderBootmodeTry
                          /\ ret.fs.err = nil
                          /\ ret.fs.value = otherRootfs
           /\ (ret.sel # nil \/ ret.mode.err # nil \/ ret.fs.err # nil) => ~ret.val
           /\ (ret.sel = nil /\ ret.mode.err = nil)
                 => ret.mode = GetBootVar(GetBootloader.b, bootloaderBootmodeVar)
           /\ (ret.sel = nil /\ ret.fs.err = nil)
                 => ret.fs = GetBootVar(GetBootloader.b, bootloaderRootfsVar)

\* C11 witness: NextBootIsOther returned true on a device whose store reads
\* bootmode = "try" and next_rootfs = otherTag.
C11_Witness ==
    /\ pc = "idle" /\ ret.op = "NextBootIsOther" /\ ret.val
    /\ ReadBack(bootloaderBootmodeVar) = bootloaderBootmodeTry
    /\ ReadBack(bootloaderRootfsVar) = otherRootfs

C13_RoundTrip ==
    /\ rt.st \in {"set", "got"} => rt.store[rt.k] = Var(rt.v)
    /\ (rt.st = "got" /\ rt.got.err = nil) => rt.got.value = rt.v

\* the lines of the variant's variable store
StoreLines(b) == IF b = bootloaderNameUboot THEN envFile.lines ELSE grubList

\* C14: for both variants a GetBootVar of a name that the variable store does
\* not hold returns the empty string and no error: so does the bootmode read
\* NextBootIsOther made (when its grub-editenv run did not itself fail), and so
\* would a read of any such name.
C14_MissingVarIsEmpty ==
    (pc = "idle" /\ ret.op = "NextBootIsOther" /\ ret.sel = nil)
        => /\ (ret.mode.err # "failed"
                 /\ \A i \in 1..Len(StoreLines(GetBootloader.b)) :
                        ~HasNamePrefix(StoreLines(GetBootloader.b)[i], bootloaderBootmodeVar))
                 => ret.mode = [value |-> "", err |-> nil]
           /\ \A name \in {bootloaderBootmodeVar, bootloaderRootfsVar, "missing"} :
                 (\A i \in 1..Len(StoreLines(GetBootloader.b)) :
                        ~HasNamePrefix(StoreLines(GetBootloader.b)[i], name))
                     => GetBootVar(GetBootloader.b, name) = [value |-> "", err |-> nil]

\* what C15 expects of one change {k: v}: the line beginning "k=" replaced in
\* place, or, when there is none, the line "k=v" appended
OneChange(lines, k, v) ==
    IF \E i \in 1..Len(lines) : HasNamePrefix(lines[i], k)
    THEN [i \in 1..Len(lines) |->
             IF HasNamePrefix(lines[i], k) THEN Line(k, v) ELSE lines[i]]
    ELSE Append(lines, Line(k, v))

RECURSIVE EachChange(_, _, _)
EachChange(lines, changes, n) ==
    IF n > Len(changes) THEN lines
    ELSE EachChange(OneChange(lines, changes[n].Name, changes[n].Value), changes, n + 1)

\* C15: modifyNameValueFile with a change {k: v2} on a file that has a line
\* beginning "k=" gives the file with that line replaced by "k=v2" in place and
\* every other line unchanged and in order; with a change whose name begins no
\* line it gives the file with "k=v2" appended.  So for every single change on
\* the file at hand, and for the changes the operation at hand writes to the
\* .NEW file, one after the other.
C15_ReplaceOrAppend ==
    [][ (pc = "uboot_modify" /\ envFile.exists)
            => /\ \A k \in {bootloaderBootmodeVar, bootloaderRootfsVar, "snappy_trial", "k2"} :
                     \A v \in {bootloaderBootmodeTry, bootloaderBootmodeSuccess, "a", "b"} :
                        modifyNameValueFile(envFile.lines, <<Change(k, v)>>)
                            = OneChange(envFile.lines, k, v)
               /\ pc' = "uboot_rename"
                     => tmpFile' = File(EachChange(envFile.lines,
                                          IF op = "UpdateBootloader" THEN ubootToggleChanges
                                          ELSE ubootMarkChanges, 1))
      ]_vars

\* C15 witness: MarkCurrentBootSuccessful on a file whose second line is
\* snappy_mode=try: the .NEW file has snappy_mode=default as its second line
\* and the first line as it was.
C15_Witness ==
    /\ pc = "uboot_rename" /\ op = "MarkBootSuccessful"
    /\ envFile.lines = << Line(bootloaderRootfsVar, "b"),
                          Line(bootloaderBootmodeVar, bootloaderBootmodeTry) >>
    /\ tmpFile.lines = << Line(bootloaderRootfsVar, "b"),
                          Line(bootloaderBootmodeVar, bootloaderBootmodeSuccess) >>

\* C16: a reader of the variable file finds, at any instant and after a crash
\* or power loss at any point of a write, the complete old contents or the
\* complete new ones: the file changes only by the rename that puts the
\* complete new lines in place, and the data it then holds have reached
\* stable storage.
C16_AtomicWrite ==
    [][ /\ envFile' # envFile
              => /\ pc = "uboot_rename"
                 /\ envFile' = File(EachChange(envFile.lines,
                                      IF op = "UpdateBootloader" THEN ubootToggleChanges
                                      ELSE ubootMarkChanges, 1))
        /\ (pc = "uboot_rename" /\ pc' # pc /\ tmpFile' = NoFile) => ~unsynced'
      ]_vars

\* C17: on a single-root system a call of UpdateBootloader returns nil at
\* once: it runs no mount, unmount or fsck and writes no bootloader variable,
\* so both registries, the mount table and the variable stores are unchanged.
C17_SingleRootNoOp ==
    [][ (/\ Running /\ pc = "idle" /\ singleRootPartition /\ nops' = nops + 1
         /\ \/ op' = "UpdateBootloader"
            \/ pc' = "idle" /\ ret'.op = "UpdateBootloader")
            => /\ pc' = "idle" /\ op' = "none"
               /\ ret' = [op |-> "UpdateBootloader", err |-> nil, at |-> "idle"]
               /\ UNCHANGED <<mounts, bindMounts, mtab>>
               /\ UNCHANGED <<envFile, tmpFile, grubenv, stampFile>>
      ]_vars

\* C17 witness: UpdateBootloader has returned nil on a single-root system
\* with U-Boot's files in place: nothing is mounted or registered and the
\* variable file is as it was.
C17_Witness ==
    /\ singleRootPartition /\ pc = "idle" /\ nops = 1
    /\ ret = [op |-> "UpdateBootloader", err |-> nil, at |-> "idle"]
    /\ mounts = <<>> /\ bindMounts = <<>> /\ mtab = <<>>
    /\ bootloaderNameUboot \in installed
    /\ envFile = File(<< Line(bootloaderBootmodeVar, bootloaderBootmodeSuccess),
                         Line(bootloaderRootfsVar, "a") >>)
    /\ tmpFile = NoFile

\* C18: RunWithOther returns a non-nil error, the callback's, whenever the
\* callback returned one, in read-only and in read-write mode, and in
\* read-write mode the demotion to read-only has run by then.
C18_PropagatesFnError ==
    [][ /\ (pc = "defer" /\ pc' = "idle" /\ ferr # nil)
              => ret'.err # nil
        /\ (pc = "f" /\ pc' = "idle" /\ ret'.err # nil)
              => (ret'.at = "f" /\ op \in {"RunWithOtherRO", "RunWithOtherRW"})
        /\ (pc = "f" /\ op = "RunWithOtherRW" /\ dualRootPartitions /\ pc' # pc)
              => pc' = "defer"
      ]_vars

\* C19: when RunWithOther calls the callback, a single-root system has had no
\* mount made, and on a dual-root system the other rootfs is mounted at the
\* mount target as the mode asks: read-write for RW, read-only for RO; and
\* when RunWithOther has returned from a read-write run the other rootfs is
\* mounted read-only again.
C19_MountedPerMode ==
    /\ (pc = "f" /\ ~dualRootPartitions)
          => mounts = <<>> /\ bindMounts = <<>> /\ mtab = <<>>
    /\ (pc = "f" /\ dualRootPartitions)
          => OtherMode = IF op = "RunWithOtherRW" THEN "rw" ELSE "ro"
    /\ (pc = "idle" /\ ret.op = "RunWithOtherRW" /\ ret.at = "defer")
          => OtherMode = "ro"

\* C20: GetBootloader returns the first installed variant of the list U-Boot,
\* GRUB: U-Boot whenever it is installed, GRUB when it alone is, and the
\* bootloader error when neither is; an operation that got that error has
\* selected no variant and has left the variable stores as they were.
C20_FirstInstalledWins ==
    [][ /\ Installed(bootloaderNameUboot)
              => GetBootloader = [b |-> bootloaderNameUboot, err |-> nil]
        /\ (~Installed(bootloaderNameUboot) /\ Installed(bootloaderNameGrub))
              => GetBootloader = [b |-> bootloaderNameGrub, err |-> nil]
        /\ (~Installed(bootloaderNameUboot) /\ ~Installed(bootloaderNameGrub))
              => GetBootloader.err = "BootloaderError"
        /\ (pc \in {"idle", "bootloader"} /\ bl' # bl) => bl' = GetBootloader.b
        /\ (pc \in {"idle", "bootloader"} /\ ret' # ret /\ ret'.err = "BootloaderError")
              => /\ bl' = "none"
                 /\ UNCHANGED <<envFile, tmpFile, grubenv, stampFile>>
        /\ bl # "none" => Installed(bl)
      ]_vars

\* C20 witness: with both variants installed MarkBootSuccessful selected
\* U-Boot and is at its rewrite of snappy-system.txt.
C20_Witness ==
    /\ installed = {bootloaderNameUboot, bootloaderNameGrub}
    /\ op = "MarkBootSuccessful" /\ bl = bootloaderNameUboot /\ pc = "uboot_modify"
    /\ grubenv[bootloaderBootmodeVar] # Unset

\* C21: on every listing with two root-labelled partitions exactly one of the
\* two is mounted at "/" and newBootloader takes it as current, takes the
\* other one as other, and the two tags are "a" and "b".
C21_DualRootClassified ==
    LET roots == FilterRoots(probe.listing)
    IN  (probe.st = "classified" /\ probe.lsblk = nil /\ Len(roots) = 2) =>
            /\ Cardinality({i \in 1..2 : roots[i].mountpoint = "/"}) = 1
            /\ probe.cur # 0 /\ probe.oth # 0 /\ probe.cur # probe.oth
            /\ roots[probe.cur].mountpoint = "/"
            /\ {probe.curTag, probe.othTag} = {"a", "b"}

\* C22: a listing without a root-labelled partition makes getPartitionDetails
\* fail with the detection error and a failing lsblk makes it fail with
\* lsblk's error, and after such a failure no coordinator operation is
\* started on the partition model.
C22_DiscoveryErrorsAbort ==
    /\ (probe.st \in {"built", "classified"} /\ probe.lsblk = nil
           /\ Len(FilterRoots(probe.listing)) = 0)
          => probe.err = PartitionDetectionError
    /\ (probe.st \in {"built", "classified"} /\ probe.lsblk # nil)
          => probe.err = probe.lsblk
    /\ (probe.st \in {"built", "classified"}
           /\ (probe.lsblk # nil \/ probe.err = PartitionDetectionError))
          => nops = 0 /\ pc = "idle" /\ ret = NoReturn

\* the process is between a StartPrivileged that returned nil and its
\* StopPrivileged
Privileged(p) == lk[p].pc = "update"

\* C23: at most one process at a time is between a successful StartPrivileged
\* and its StopPrivileged, and a createLock made while another process is
\* there fails at once with the operation-in-progress error.
C23_LockExcludes ==
    [][ \A p \in Procs, q \in Procs :
          p # q =>
            /\ ~(Privileged(p)' /\ Privileged(q)')
            /\ (Privileged(q) /\ lk[p].pc = "create" /\ lk'[p] # lk[p])
                  => lk'[p].pc = "done" /\ lk'[p].err = ErrPrivOpInProgress
      ]_vars

\* C24: whichever way a process that acquired the lock ends (Execute returns
\* nil, Execute returns an error, a signal ends the process), the lockfile it
\* created is gone when it has ended.
C24_ReleasedOnEveryExit ==
    [][ \A p \in Procs :
          (lk[p].pc \in {"update", "unlink", "close"} /\ lk'[p].pc \in {"done", "killed"})
             => lockfile' # p
      ]_vars

\* the process is inside the part of its command that changes bootloader
\* state or mounts: update() or MarkBootSuccessful()
Mutating(p) == lk[p].pc \in {"update", "booted"}

\* C25: a process that is mutating (update command or booted command) holds
\* the lock, and no two processes are mutating at the same time.
C25_MutationUnderLock ==
    \A p \in Procs :
       Mutating(p) =>
          /\ lockfile = p
          /\ \A q \in Procs : (q # p) => ~Mutating(q)

\* C26: a process whose uid is not 0 gets the requires-root error from the
\* first check of its command: it never reaches createLock or the mutating
\* operation, never creates the lockfile, and none of its steps (its signal
\* handler included) touches a lockfile that exists.
C26_NonRootFailsFirst ==
    [][ \A p \in Procs :
          (lk[p].uid # 0) =>
            /\ lk'[p].pc \in {"start", "done", "killed"}
            /\ lk'[p].lock = "nil"
            /\ lockfile' # p
            /\ (lk[p].pc = "start" /\ lk'[p].pc = "done")
                  => lk'[p].err = ErrRequiresRoot
            /\ (lk'[p] # lk[p]) => lockfile' = lockfile
      ]_vars

\* C26 witness: a non-root update command has failed with the requires-root
\* error while another process holds the lock, whose lockfile is still there.
C26_Witness ==
    \E p \in Procs, q \in Procs :
       /\ lk[p].uid # 0 /\ lk[p].cmd = "update"
       /\ lk[p].pc = "done" /\ lk[p].err = ErrRequiresRoot
       /\ q # p /\ Privileged(q) /\ lockfile = q

\* the variables read as UpdateBootloader leaves them: bootmode "try",
\* next_rootfs the other rootfs
Staged ==
    /\ ReadBack(bootloaderBootmodeVar) = bootloaderBootmodeTry
    /\ ReadBack(bootloaderRootfsVar) = otherRootfs

\* C27: no step of an UpdateBootloader that runs on staged variables changes
\* the variable stores (same file contents), a ToggleRootFS that completes
\* leaves the variables staged, and the next_rootfs it writes is the tag of
\* the root partition that is not mounted at "/", whatever was stored before.
C27_ToggleIdempotent ==
    [][ op = "UpdateBootloader" =>
          /\ Staged => (envFile' = envFile /\ grubenv' = grubenv)
          /\ (tog.st = "run" /\ tog'.st = "ok") => Staged'
          /\ (~tog.ab /\ tog'.ab)
                => ReadBack(bootloaderRootfsVar)' = (IF rootPartition.name = ROOTFS_A_LABEL
                                                     THEN "b" ELSE "a")
      ]_vars

\* C27 witness: a U-Boot ToggleRootFS has completed that found the variables
\* staged already, and they read staged after it.
C27_Witness ==
    /\ op = "UpdateBootloader" /\ bl = bootloaderNameUboot /\ tog.st = "ok"
    /\ tog.preMode = bootloaderBootmodeTry /\ tog.preAb = otherRootfs
    /\ Staged

\* the line sets snappy_mode
IsModeLine(line) == Len(line) >= 2 /\ line[1] = bootloaderBootmodeVar /\ line[2] = "="

\* new is old with every snappy_mode line set to "default", every other line
\* as it was, and one snappy_mode=default line added when old had none
ModeSetToDefault(old, new) ==
    LET has == \E i \in 1..Len(old) : IsModeLine(old[i])
        def == Line(bootloaderBootmodeVar, bootloaderBootmodeSuccess)
    IN  /\ Len(new) = Len(old) + (IF has THEN 0 ELSE 1)
        /\ \A i \in 1..Len(old) : new[i] = IF IsModeLine(old[i]) THEN def ELSE old[i]
        /\ ~has => new[Len(new)] = def

C29_ExitCode ==
    /\ (xc.st = "done" /\ xc.how = "exit" /\ xc.runErr.kind = "exit")
          => xc.e = xc.n /\ xc.err = nilErr
    /\ (xc.st = "done" /\ xc.runErr.kind = "other")
          => xc.err = xc.runErr /\ xc.err # nilErr

\* C29 witness: the child ran "exit 7" and exitCode returned (7, nil).
C29_Witness ==
    /\ xc.st = "done" /\ xc.how = "exit" /\ xc.n = 7
    /\ xc.runErr.kind = "exit" /\ xc.e = 7 /\ xc.err = nilErr

ToggleMounts ==
    << Mnt(MountTarget, "rw"),
       Mnt("/writable/cache/system/dev", "bind"),
       Mnt("/writable/cache/system/proc", "bind"),
       Mnt("/writable/cache/system/sys", "bind") >>
    \o (IF hasBootPartition /\ bootPartition.mountpoint # ""
        THEN <<Mnt(Join(bootPartition.mountpoint), "bind")>> ELSE <<>>)

C32_GrubToggleOrder ==
    [][ (op = "UpdateBootloader" /\ bl = bootloaderNameGrub) =>
          /\ grubenv' # grubenv => pc = "grub_set"
          /\ (pc = "grub_update" /\ pc' # pc)
                => \/ (pc' = "grub_set" /\ idx' = 1 /\ grubenv' = grubenv)
                   \/ (pc' = "idle" /\ ret'.err # nil /\ grubenv' = grubenv
                         /\ ~tog'.mode /\ ~tog'.ab)
          /\ (pc = "grub_set" /\ pc' = "idle")
                => (ret'.err # nil /\ grubenv' = grubenv /\ tog'.mode = tog.mode
                      /\ tog'.ab = tog.ab)
          /\ tog'.mode # tog.mode => (pc = "grub_set" /\ idx = 1 /\ ~tog.ab)
          /\ tog'.ab # tog.ab => (pc = "grub_set" /\ idx = 2 /\ tog.mode)
          /\ (pc = "grub_set" /\ pc' = "grub_set" /\ idx' # idx) => idx' = idx + 1
      ]_vars

\* C32 witness: on GRUB the first setBootVar of ToggleRootFS failed and
\* UpdateBootloader returned its error with neither variable written.
C32_Witness ==
    /\ pc = "idle" /\ ret.op = "UpdateBootloader" /\ ret.at = "grub_set" /\ ret.err # nil
    /\ tog.st = "fail" /\ ~tog.mode /\ ~tog.ab
    /\ grubenv[bootloaderBootmodeVar] # bootloaderBootmodeTry

\* C33: uboot.ToggleRootFS on a missing snappy-system.txt creates the file:
\* the step that reads the file goes on to write snappy_ab=<other> and
\* snappy_mode=try to the .NEW file (or fails in that write), and never
\* returns the error of the read.
C33_UbootToggleCreates ==
    [][ (op = "UpdateBootloader" /\ pc = "uboot_modify" /\ envFile = NoFile /\ pc' # pc)
          => \/ /\ pc' = "uboot_rename"
                /\ tmpFile' = File(<< Line(bootloaderRootfsVar, otherRootfs),
                                      Line(bootloaderBootmodeVar, bootloaderBootmodeTry) >>)
             \/ /\ pc' = "idle"
                /\ ret'.err # "ENOENT"
      ]_vars

\* C34: uboot.HandleAssets returns an error when hardware.yaml names another
\* bootloader or a partition layout that differs from the detected topology;
\* whenever hardware.yaml was there to read it is gone when HandleAssets
\* returns; without hardware.yaml HandleAssets returns nil and changes
\* nothing; grub.HandleAssets returns nil and changes nothing.
C34_HandleAssets ==
    assets.st = "done" =>
        /\ assets.b = bootloaderNameGrub
              => (assets.err = nil /\ assets.cache = assets.before /\ assets.slot = {})
        /\ (assets.b = bootloaderNameUboot /\ HARDWARE_SPEC_FILE \notin assets.before)
              => (assets.err = nil /\ assets.cache = assets.before /\ assets.slot = {})
        /\ (assets.b = bootloaderNameUboot /\ HARDWARE_SPEC_FILE \in assets.before)
              => /\ HARDWARE_SPEC_FILE \notin assets.cache
                 /\ (assets.hw.state = "parsed"
                       /\ assets.hw.Bootloader # bootloaderNameUboot) => assets.err # nil
                 /\ (assets.hw.state = "parsed"
                       /\ (assets.hw.PartitionLayout = bootloaderSystemAB)
                             # dualRootPartitions) => assets.err # nil

\* C35: the bind-mount step is all-or-nothing: when UpdateBootloader returns
\* the error of a failed bind mount, the binds made before it are unmounted
\* and the other rootfs is mounted read-only again.
C35_BindAllOrNothing ==
    (pc = "idle" /\ ret.op = "UpdateBootloader" /\ ret.at = "bind" /\ ret.err # nil)
        => /\ \A i \in 1..Len(mtab) : mtab[i].opt # "bind"
           /\ OtherMode = "ro"

\* C36: a process that a signal ends while it holds the lock has finished
\* the helpers package's signalHandler (the lockfile removal) before it
\* exits: the os.Exit(1) of the partition package's signal goroutine does not
\* end the process while signalHandler has not run or is still running.
C36_BothCleanupsComplete ==
    \A p \in Procs :
        (lk[p].pc = "killed" /\ lk[p].lock = "open") => lk[p].sg = "exit"

\* C37: whenever the signal goroutine may run, a mount the process has made
\* and not unmounted is in the registry: between the mount command and the
\* append the target is registered already, and a process that a signal ended
\* there has left no mount of its own behind.
C37_MountsAlwaysRegistered ==
    /\ (Running /\ pc = "rw_register") => MountTarget \in Range(mounts)
    /\ (proc = "exit1" /\ pc = "rw_register") => ~Mounted(mtab, MountTarget)

\* C38: on a dual-root system, whenever UpdateBootloader or RunWithOther(RW)
\* has returned, with nil or with any error, the other rootfs is mounted
\* read-only at the mount target. (Stated for the calls that found the other
\* rootfs mounted, i.e. whose first unmount succeeded.)
C38_ReadOnlyOnReturn ==
    (pc = "idle" /\ dualRootPartitions
       /\ ret.op \in {"UpdateBootloader", "RunWithOtherRW"}
       /\ ret.at # "rw_umount")
        => OtherMode = "ro"

\* C39: on a dual-root system, when UpdateBootloader or RunWithOther has
\* returned nil, each registry lists no path twice and only paths that are
\* mounted, and after UpdateBootloader the bind-mount registry is empty.
C39_RegistriesExact ==
    (pc = "idle" /\ dualRootPartitions /\ ret.err = nil
       /\ ret.op \in {"UpdateBootloader", "RunWithOtherRW", "RunWithOtherRO"})
        => /\ \A i, j \in 1..Len(mounts) : mounts[i] = mounts[j] => i = j
           /\ \A i, j \in 1..Len(bindMounts) : bindMounts[i] = bindMounts[j] => i = j
           /\ \A t \in Range(mounts) \cup Range(bindMounts) : Mounted(mtab, t)
           /\ ret.op = "UpdateBootloader" => bindMounts = <<>>

\* C40: from the moment uboot.ToggleRootFS starts, whoever reads
\* snappy-system.txt (the running system, or the bootloader after a crash or
\* a power loss) never finds snappy_mode newly "try" with snappy_ab still at
\* its old value, nor snappy_ab newly the other rootfs with snappy_mode still
\* at its old value.
C40_UbootToggleBothOrNeither ==
    (tog.st # "none" /\ GetBootloader.err = nil /\ GetBootloader.b = bootloaderNameUboot)
        => LET m == GetBootVar(bootloaderNameUboot, bootloaderBootmodeVar).value
               a == GetBootVar(bootloaderNameUboot, bootloaderRootfsVar).value
           IN  /\ ~( /\ m = bootloaderBootmodeTry /\ tog.preMode # bootloaderBootmodeTry
                     /\ a = tog.preAb /\ tog.preAb # otherRootfs )
               /\ ~( /\ a = otherRootfs /\ tog.preAb # otherRootfs
                     /\ m = tog.preMode /\ tog.preMode # bootloaderBootmodeTry )

====
